---- MODULE Spec2Model ----
(***************************************************************************)
(* Model of the SOC report review tool: the generative rule check of       *)
(* src/app.py (check_rule_with_llm, upload_file) and the deterministic     *)
(* checkers of src/backend.py (ChecklistValidator).                        *)
(*                                                                         *)
(* Python values are records of one shape, so that any two of them can be  *)
(* compared.  A Python string is a sequence of characters (one-character   *)
(* TLA+ strings; a fixed message of the program is a sequence holding the  *)
(* message as one atom).  A response text of the generative service is a   *)
(* sequence of lexical units (a fence of three backticks, a brace, a JSON  *)
(* string literal, a prose word, a newline, ...).                          *)
(***************************************************************************)
EXTENDS Integers, Sequences, FiniteSets, TLC

VARIABLES
    pc,          \* upload_file: "idle", "loop", "done"
    request,     \* the upload request being served
    rulesFile,   \* content of rules.json: [ok |-> BOOLEAN, rules |-> Seq(rule)]
    userInputs,  \* upload_file: user_inputs (set of the form keys)
    idx,         \* upload_file: position of the for loop over rules['rules']
    results,     \* upload_file: results
    fileOnDisk,  \* upload_file: the uploaded file exists under UPLOAD_FOLDER
    response,    \* upload_file: the HTTP response, once returned
    raw,         \* normalizer runs: the outcome of ollama.chat
    verdict,     \* normalizer runs: what check_rule_with_llm returned
    ckText,      \* checker runs: the report text
    ckRule,      \* checker runs: the rule
    ckOut,       \* checker runs: what the checker returned
    checklist,   \* backend.py: CHECKLIST_CONFIG["rules"]
    rpRequest,   \* backend.py upload_report: the request being served
    rpFile,      \* backend.py upload_report: the uploaded file exists on disk
    rpResponse,  \* backend.py upload_report: the HTTP response, once returned
    evCall,      \* one call of check_rule_with_llm: its arguments
    llmCalls,    \* the number of requests sent to the generative service
    pmCall,      \* one prompt being built: the rule and the document's length
    pmSent,      \* the requests sent: the length of the document excerpt in each
    vdChecklist, \* validator.py: self.checklist['rules']
    vdResults,   \* validator.py: self.results
    vdFile,      \* validator.py: the file of the last validate() call
    vdReturn,    \* validator.py: what the last validate() call returned
    vdRuns,      \* validator.py: the number of validate() calls so far
    apiRules,    \* backend/app.py: CHECKLIST_RULES['rules']
    apiRequest,  \* backend/app.py: the request being served
    apiContext,  \* backend/app.py: context_data is passed to the rule check
    apiIdx,      \* backend/app.py: position of the loop over the rules
    apiResults,  \* backend/app.py: results
    apiFile,     \* backend/app.py: the uploaded file exists at temp_path
    apiResponse  \* backend/app.py: the HTTP response, once returned

reportVars == <<checklist, rpRequest, rpFile, rpResponse>>
evalVars   == <<evCall>>
promptVars == <<pmCall, pmSent>>
validatorVars == <<vdChecklist, vdResults, vdFile, vdReturn, vdRuns>>
apiVars == <<apiRules, apiRequest, apiContext, apiIdx, apiResults, apiFile, apiResponse>>

vars == <<pc, request, rulesFile, userInputs, idx, results, fileOnDisk,
          response, raw, verdict, ckText, ckRule, ckOut, reportVars, evalVars,
          promptVars, validatorVars, apiVars, llmCalls>>

----------------------------------------------------------------------------
(* Python values *)

PyBool(x) == [t |-> "bool", b |-> x,     n |-> 0, s |-> <<>>, l |-> <<>>]
PyStr(x)  == [t |-> "str",  b |-> FALSE, n |-> 0, s |-> x,    l |-> <<>>]
PyNum(x)  == [t |-> "num",  b |-> FALSE, n |-> x, s |-> <<>>, l |-> <<>>]
PyList(x) == [t |-> "list", b |-> FALSE, n |-> 0, s |-> <<>>, l |-> x]
PyNone    == [t |-> "none", b |-> FALSE, n |-> 0, s |-> <<>>, l |-> <<>>]
PyDict    == [t |-> "dict", b |-> FALSE, n |-> 0, s |-> <<>>, l |-> <<>>]

\* Python truth value of a value (what `not x` negates)
Truthy(v) ==
    CASE v.t = "bool" -> v.b
      [] v.t = "str"  -> v.s # <<>>
      [] v.t = "num"  -> v.n # 0
      [] v.t = "list" -> v.l # <<>>
      [] v.t = "none" -> FALSE
      [] OTHER        -> TRUE

----------------------------------------------------------------------------
(* Python strings *)

Uppers == <<"A","B","C","D","E","F","G","H","I","J","K","L","M",
            "N","O","P","Q","R","S","T","U","V","W","X","Y","Z">>
Lowers == <<"a","b","c","d","e","f","g","h","i","j","k","l","m",
            "n","o","p","q","r","s","t","u","v","w","x","y","z">>

LowerChar(c) ==
    IF \E i \in 1..Len(Uppers) : Uppers[i] = c
    THEN Lowers[CHOOSE i \in 1..Len(Uppers) : Uppers[i] = c]
    ELSE c

\* str.lower()
Lower(s) == [i \in 1..Len(s) |-> LowerChar(s[i])]

IsSpace(c) == c \in {" ", "\t", "\n", "\r"}

\* str.strip()
StripStr(s) ==
    IF \A i \in 1..Len(s) : IsSpace(s[i]) THEN <<>>
    ELSE LET a == CHOOSE i \in 1..Len(s) :
                     ~IsSpace(s[i]) /\ \A j \in 1..(i-1) : IsSpace(s[j])
             b == CHOOSE i \in 1..Len(s) :
                     ~IsSpace(s[i]) /\ \A j \in (i+1)..Len(s) : IsSpace(s[j])
         IN  SubSeq(s, a, b)

W_passed  == <<"p","a","s","s","e","d">>
W_partial == <<"p","a","r","t","i","a","l">>
W_failed  == <<"f","a","i","l","e","d">>
W_true    == <<"t","r","u","e">>
W_yes     == <<"y","e","s">>
W_json    == <<"j","s","o","n">>

K_passed    == W_passed
K_reason    == <<"reason">>
K_locations == <<"locations">>
K_location  == <<"location">>

----------------------------------------------------------------------------
(* Response texts: sequences of lexical units *)

Tok(k)   == [k |-> k,      s |-> <<>>]
TStr(x)  == [k |-> "str",  s |-> x]     \* a JSON string literal "x"
TWord(x) == [k |-> "word", s |-> x]     \* a prose word

FENCE  == Tok("fence")                  \* three backticks
LBRACE == Tok("lbrace")
RBRACE == Tok("rbrace")
LBRACK == Tok("lbrack")
RBRACK == Tok("rbrack")
COLON  == Tok("colon")
COMMA  == Tok("comma")
WS     == Tok("ws")                     \* a space
NL     == Tok("nl")                     \* \n
TAB    == Tok("tab")                    \* \t
CR     == Tok("cr")                     \* \r
TTRUE  == Tok("true")
TFALSE == Tok("false")
TNULL  == Tok("null")
TNUM   == Tok("num")                    \* the number 1

IsBlank(tok) == tok.k \in {"ws", "nl", "tab", "cr"}

\* str.strip() of a text
StripText(x) ==
    IF \A i \in 1..Len(x) : IsBlank(x[i]) THEN <<>>
    ELSE LET a == CHOOSE i \in 1..Len(x) :
                     ~IsBlank(x[i]) /\ \A j \in 1..(i-1) : IsBlank(x[j])
             b == CHOOSE i \in 1..Len(x) :
                     ~IsBlank(x[i]) /\ \A j \in (i+1)..Len(x) : IsBlank(x[j])
         IN  SubSeq(x, a, b)

\* str.find(pat), from 1; 0 when pat does not occur
Find(x, pat) ==
    LET hits == {i \in 1..(Len(x) - Len(pat) + 1) :
                    SubSeq(x, i, i + Len(pat) - 1) = pat}
    IN  IF hits = {} THEN 0 ELSE CHOOSE i \in hits : \A j \in hits : i <= j

\* str.rfind(pat), from 1; 0 when pat does not occur
RFind(x, pat) ==
    LET hits == {i \in 1..(Len(x) - Len(pat) + 1) :
                    SubSeq(x, i, i + Len(pat) - 1) = pat}
    IN  IF hits = {} THEN 0 ELSE CHOOSE i \in hits : \A j \in hits : i >= j

\* str.split(pat): the list of the parts between the occurrences of pat
RECURSIVE Split(_, _)
Split(x, pat) ==
    LET i == Find(x, pat)
    IN  IF i = 0 THEN <<x>>
        ELSE <<SubSeq(x, 1, i - 1)>> \o Split(SubSeq(x, i + Len(pat), Len(x)), pat)

\* sep.join(parts)
RECURSIVE Join(_, _)
Join(parts, sep) ==
    IF parts = <<>> THEN <<>>
    ELSE IF Len(parts) = 1 THEN parts[1]
    ELSE parts[1] \o sep \o Join(Tail(parts), sep)

\* str.replace(pat, by)
Replace(x, pat, by) == Join(Split(x, pat), by)

\* the three replace() calls of the clean-up, on the characters of a literal
CleanChars(s) ==
    LET noCR == SelectSeq(s, LAMBDA c : c # "\r")
    IN  [i \in 1..Len(noCR) |-> IF noCR[i] \in {"\n", "\t"} THEN " " ELSE noCR[i]]

\* result_text.replace('\n', ' ').replace('\r', '').replace('\t', ' ')
CleanText(x) ==
    LET y == Replace(Replace(Replace(x, <<NL>>, <<WS>>), <<CR>>, <<>>), <<TAB>>, <<WS>>)
    IN  [i \in 1..Len(y) |-> [k |-> y[i].k, s |-> CleanChars(y[i].s)]]

\* Remove markdown code blocks if present (result_text after the if/elif)
StripFences(x) ==
    IF Find(x, <<FENCE, TWord(W_json)>>) # 0
    THEN StripText(Split(Split(x, <<FENCE, TWord(W_json)>>)[2], <<FENCE>>)[1])
    ELSE IF Len(x) >= 1 /\ x[1] = FENCE
    THEN LET lines == Split(x, <<NL>>)
             inner == IF Len(lines) > 2
                      THEN Join(SubSeq(lines, 2, Len(lines) - 1), <<NL>>)
                      ELSE x
         IN  StripText(Replace(inner, <<FENCE>>, <<>>))
    ELSE x

\* Try to extract JSON from the response: [ok |-> FALSE] is the ValueError
ExtractJson(x) ==
    LET start == Find(x, <<LBRACE>>) - 1      \* 0-based, -1 when absent
        end   == (RFind(x, <<RBRACE>>) - 1) + 1
    IN  IF start # -1 /\ end > start
        THEN [ok |-> TRUE, text |-> SubSeq(x, start + 1, end)]
        ELSE [ok |-> FALSE, text |-> <<>>]

\* Remove any text after the closing brace
CutAfterBrace(x) ==
    IF Find(x, <<RBRACE>>) # 0 THEN SubSeq(x, 1, RFind(x, <<RBRACE>>)) ELSE x

----------------------------------------------------------------------------
(* json.loads on a text: [ok |-> FALSE] is the JSONDecodeError *)

EmptyDict == [key \in {} |-> PyNone]

DictPut(d, key, v) ==
    [x \in (DOMAIN d) \cup {key} |-> IF x = key THEN v ELSE d[x]]

\* dict.get(key, default)
DictGet(d, key, default) == IF key \in DOMAIN d THEN d[key] ELSE default

JsonFail == [ok |-> FALSE, v |-> PyNone, d |-> EmptyDict, next |-> 0]
JsonVal(v, next)  == [ok |-> TRUE, v |-> v, d |-> EmptyDict, next |-> next]
JsonObj(d, next)  == [ok |-> TRUE, v |-> PyDict, d |-> d, next |-> next]

\* a string literal holding a raw control character is rejected
ValidLiteral(s) == \A i \in 1..Len(s) : s[i] \notin {"\n", "\t", "\r"}

KindAt(toks, i) == IF i <= Len(toks) THEN toks[i].k ELSE "eof"

RECURSIVE ParseValue(_, _), ParseElems(_, _, _), ParseMembers(_, _, _)

\* the members of an object, the first one at i: "key": value, ... }
ParseMembers(toks, i, d) ==
    IF KindAt(toks, i) # "str" \/ KindAt(toks, i + 1) # "colon" THEN JsonFail
    ELSE IF ~ValidLiteral(toks[i].s) THEN JsonFail
    ELSE LET r == ParseValue(toks, i + 2)
         IN  IF ~r.ok THEN JsonFail
             ELSE LET d2 == DictPut(d, toks[i].s, r.v)
                  IN  CASE KindAt(toks, r.next) = "comma"  -> ParseMembers(toks, r.next + 1, d2)
                        [] KindAt(toks, r.next) = "rbrace" -> JsonObj(d2, r.next + 1)
                        [] OTHER -> JsonFail

\* the elements of an array, the first one at i: value, ... ]
ParseElems(toks, i, acc) ==
    LET r == ParseValue(toks, i)
    IN  IF ~r.ok THEN JsonFail
        ELSE CASE KindAt(toks, r.next) = "comma"  -> ParseElems(toks, r.next + 1, Append(acc, r.v))
               [] KindAt(toks, r.next) = "rbrack" -> JsonVal(PyList(Append(acc, r.v)), r.next + 1)
               [] OTHER -> JsonFail

ParseValue(toks, i) ==
    LET k == KindAt(toks, i)
    IN  CASE k = "str"    -> IF ValidLiteral(toks[i].s)
                             THEN JsonVal(PyStr(toks[i].s), i + 1) ELSE JsonFail
          [] k = "true"   -> JsonVal(PyBool(TRUE), i + 1)
          [] k = "false"  -> JsonVal(PyBool(FALSE), i + 1)
          [] k = "null"   -> JsonVal(PyNone, i + 1)
          [] k = "num"    -> JsonVal(PyNum(1), i + 1)
          [] k = "lbrack" -> IF KindAt(toks, i + 1) = "rbrack"
                             THEN JsonVal(PyList(<<>>), i + 2)
                             ELSE ParseElems(toks, i + 1, <<>>)
          [] k = "lbrace" -> IF KindAt(toks, i + 1) = "rbrace"
                             THEN JsonObj(EmptyDict, i + 2)
                             ELSE ParseMembers(toks, i + 1, EmptyDict)
          [] OTHER        -> JsonFail

\* json.loads(text): blanks between the units are skipped, nothing may follow
JsonLoads(x) ==
    LET toks == SelectSeq(x, LAMBDA tok : ~IsBlank(tok))
        r    == ParseValue(toks, 1)
    IN  IF r.ok /\ r.next = Len(toks) + 1 THEN r ELSE JsonFail

----------------------------------------------------------------------------
(* src/app.py: check_rule_with_llm *)

W_date           == <<"d","a","t","e">>
W_audit_period   == <<"audit_period">>
W_report_type    == <<"report_type">>
W_classification == <<"classification">>
W_specificity    == <<"specificity">>

\* pat in s
Has(s, pat) == Find(s, pat) # 0

PromptRaised  == [raised |-> TRUE,  kind |-> "none"]
Prompt(kind)  == [raised |-> FALSE, kind |-> kind]

\* The prompt built before the try block.  A rule and the user inputs are
\* dicts (functions from the keys present).  raised: an AttributeError
\* (None.lower()) or a KeyError (rule['name'], rule['description']).
BuildPrompt(rule, user_inputs) ==
    IF Truthy(DictGet(rule, "requires_input", PyNone)) /\ DOMAIN user_inputs # {}
    THEN LET input_key == DictGet(rule, "input_key", PyNone)
         IN  IF input_key.t # "str" THEN PromptRaised
             ELSE IF Has(Lower(input_key.s), W_audit_period) THEN Prompt("date")
             ELSE IF "name" \notin DOMAIN rule THEN PromptRaised
             ELSE IF Has(Lower(rule["name"].s), W_date) THEN Prompt("date")
             ELSE IF Has(Lower(input_key.s), W_report_type)
                     \/ Has(Lower(rule["name"].s), W_classification)
                  THEN Prompt("report_type")
             ELSE IF Has(Lower(input_key.s), W_specificity)
                     \/ Has(Lower(rule["name"].s), W_specificity)
                  THEN Prompt("specificity")
             ELSE Prompt("generic")
    ELSE IF "name" \notin DOMAIN rule \/ "description" \notin DOMAIN rule
         THEN PromptRaised
         ELSE Prompt("no_input")

\* CanonStatus without the strip() of line 257
CanonStatus_NoStrip(passed_value) ==
    IF passed_value.t = "str"
    THEN LET passed_status == Lower(passed_value.s)
         IN  IF passed_status \notin {W_passed, W_partial, W_failed}
             THEN IF Lower(passed_value.s) \in {W_true, W_yes}
                  THEN W_passed ELSE W_failed
             ELSE passed_status
    ELSE IF passed_value = PyBool(TRUE) THEN W_passed
    ELSE W_failed

\* CanonStatus testing the trimmed value against 'true' and 'yes' at line 260
CanonStatus_TrimmedTruth(passed_value) ==
    IF passed_value.t = "str"
    THEN LET passed_status == StripStr(Lower(passed_value.s))
         IN  IF passed_status \notin {W_passed, W_partial, W_failed}
             THEN IF passed_status \in {W_true, W_yes}
                  THEN W_passed ELSE W_failed
             ELSE passed_status
    ELSE IF passed_value = PyBool(TRUE) THEN W_passed
    ELSE W_failed

\* Handle passed field which can be boolean or string
CanonStatus(passed_value) ==
    IF passed_value.t = "str"
    THEN LET passed_status == StripStr(Lower(passed_value.s))
         IN  IF passed_status \notin {W_passed, W_partial, W_failed}
             THEN IF Lower(passed_value.s) \in {W_true, W_yes}
                  THEN W_passed ELSE W_failed
             ELSE passed_status
    ELSE IF passed_value = PyBool(TRUE) THEN W_passed
    ELSE IF passed_value = PyBool(FALSE) THEN W_failed
    ELSE W_failed

\* Handle both single location and locations array
PickLocations(result) ==
    LET locations == DictGet(result, K_locations, PyList(<<>>))
    IN  IF ~Truthy(locations) /\ K_location \in DOMAIN result
        THEN PyList(<<result[K_location]>>)
        ELSE locations

M_NoReason    == <<"No reason provided">>
M_ParseError  == <<"Unable to parse validation result. Please try again.">>
M_ErrorPrefix == "Error during validation: "
M_NoJson      == "No valid JSON found in response"

\* the dict returned after a successful json.loads
VerdictOf(result) ==
    [passed    |-> PyStr(CanonStatus(DictGet(result, K_passed, PyBool(FALSE)))),
     reason    |-> DictGet(result, K_reason, PyStr(M_NoReason)),
     locations |-> PickLocations(result)]

\* except json.JSONDecodeError
ParseErrorVerdict ==
    [passed    |-> PyBool(FALSE),
     reason    |-> PyStr(M_ParseError),
     locations |-> PyList(<<PyStr(<<"Error occurred during validation">>)>>)]

\* except Exception as e
ErrorVerdict(e) ==
    [passed    |-> PyBool(FALSE),
     reason    |-> PyStr(<<M_ErrorPrefix, e>>),
     locations |-> PyList(<<PyStr(<<"Validation error">>)>>)]

\* The try block.  chat is the outcome of ollama.chat: the response text, or
\* an exception of the client (connection refused, timeout, error status).
TryBlock(chat) ==
    IF chat.kind = "error" THEN ErrorVerdict(chat.error)
    ELSE LET result_text == StripFences(StripText(chat.text))
             span        == ExtractJson(result_text)
         IN  IF ~span.ok THEN ErrorVerdict(M_NoJson)
             ELSE LET parsed == JsonLoads(CutAfterBrace(CleanText(span.text)))
                  IN  IF ~parsed.ok THEN ParseErrorVerdict
                      ELSE VerdictOf(parsed.d)

NoVerdict == [passed |-> PyNone, reason |-> PyNone, locations |-> PyNone]

\* ollama.chat called again after a failure
RequestsSent_Retry(chat) == IF chat.kind = "error" THEN 2 ELSE 1

\* the requests the try block sends for one outcome of ollama.chat: the call
\* of line 213 is the only one, and no handler repeats it
RequestsSent(chat) == 1

\* check_rule_with_llm(rule, document_text, user_inputs): raised when an
\* exception leaves the function
\* calls: the requests sent to the service on the way
CheckRuleWithLlm(rule, user_inputs, chat) ==
    IF BuildPrompt(rule, user_inputs).raised
    THEN [raised |-> TRUE,  res |-> NoVerdict,      calls |-> 0]
    ELSE [raised |-> FALSE, res |-> TryBlock(chat), calls |-> RequestsSent(chat)]

----------------------------------------------------------------------------
(* src/app.py: upload_file *)

ALLOWED_EXTENSIONS == {<<"d","o","c","x">>}

\* '.' in filename and filename.rsplit('.', 1)[1].lower() in ALLOWED_EXTENSIONS
AllowedFile(filename) ==
    /\ Has(filename, <<".">>)
    /\ Lower(SubSeq(filename, RFind(filename, <<".">>) + 1, Len(filename)))
           \in ALLOWED_EXTENSIONS

NoSummary  == [total |-> 0, passed |-> 0, partial |-> 0, failed |-> 0]
NoResponse == [status |-> 0, error |-> "", summary |-> NoSummary, results |-> <<>>]

ErrorResponse(status, error) ==
    [status |-> status, error |-> error, summary |-> NoSummary, results |-> <<>>]

\* sum(1 for r in results if r['passed'] == status)
CountStatus(rs, status) == Cardinality({i \in 1..Len(rs) : rs[i].passed = PyStr(status)})

\* Calculate summary
Summary(rs) ==
    [total   |-> Len(rs),
     passed  |-> CountStatus(rs, W_passed),
     partial |-> CountStatus(rs, W_partial),
     failed  |-> CountStatus(rs, W_failed)]

\* the three early returns before the try block
RejectRequest(req, error) ==
    /\ pc = "idle"
    /\ request' = req
    /\ response' = ErrorResponse(400, error)
    /\ pc' = "done"
    /\ UNCHANGED <<rulesFile, userInputs, idx, results, fileOnDisk,
                   raw, verdict, ckText, ckRule, ckOut,
                   reportVars, evalVars, promptVars, validatorVars, apiVars, llmCalls>>

UploadNoFile(req) ==
    /\ ~req.hasFile
    /\ RejectRequest(req, "No file provided")

UploadNoName(req) ==
    /\ req.hasFile /\ req.filename = <<>>
    /\ RejectRequest(req, "No file selected")

UploadBadType(req) ==
    /\ req.hasFile /\ req.filename # <<>> /\ ~AllowedFile(req.filename)
    /\ RejectRequest(req, "Only .docx files are allowed")

Accepted(req) == req.hasFile /\ req.filename # <<>> /\ AllowedFile(req.filename)

\* file.save, then extract_text_from_docx or load_rules raises: except Exception
UploadFails(req) ==
    /\ pc = "idle" /\ Accepted(req)
    /\ ~req.extractOk \/ ~rulesFile.ok
    /\ request' = req
    /\ fileOnDisk' = TRUE
    /\ response' = ErrorResponse(500, IF ~req.extractOk THEN "extract" ELSE "rules")
    /\ pc' = "done"
    /\ UNCHANGED <<rulesFile, userInputs, idx, results, raw, verdict, ckText, ckRule, ckOut,
                   reportVars, evalVars, promptVars, validatorVars, apiVars, llmCalls>>

\* file.save ... results = [], up to the first iteration of the loop
UploadStart(req) ==
    /\ pc = "idle" /\ Accepted(req)
    /\ req.extractOk /\ rulesFile.ok
    /\ request' = req
    /\ fileOnDisk' = TRUE
    /\ userInputs' = req.form
    /\ idx' = 1
    /\ results' = <<>>
    /\ pc' = "loop"
    /\ UNCHANGED <<rulesFile, response, raw, verdict, ckText, ckRule, ckOut,
                   reportVars, evalVars, promptVars, validatorVars, apiVars, llmCalls>>

\* one iteration of `for rule in rules['rules']` whose body completes
CheckRuleOk(chat) ==
    /\ pc = "loop" /\ idx <= Len(rulesFile.rules)
    /\ LET rule == rulesFile.rules[idx]
           r    == CheckRuleWithLlm(rule, userInputs, chat)
       IN  /\ ~r.raised
           /\ "name" \in DOMAIN rule /\ "description" \in DOMAIN rule
           /\ results' = Append(results,
                  [rule_name   |-> rule["name"],
                   description |-> rule["description"],
                   passed      |-> r.res.passed,
                   reason      |-> r.res.reason,
                   locations   |-> r.res.locations])
    /\ idx' = idx + 1
    /\ llmCalls' = llmCalls + CheckRuleWithLlm(rulesFile.rules[idx], userInputs, chat).calls
    /\ UNCHANGED <<pc, request, rulesFile, userInputs, fileOnDisk, response,
                   raw, verdict, ckText, ckRule, ckOut,
                   reportVars, evalVars, promptVars, validatorVars, apiVars>>

\* one iteration whose body raises (in check_rule_with_llm, or at rule['name'],
\* rule['description']): except Exception, the file is left in place
CheckRuleRaises(chat) ==
    /\ pc = "loop" /\ idx <= Len(rulesFile.rules)
    /\ LET rule == rulesFile.rules[idx]
       IN  \/ CheckRuleWithLlm(rule, userInputs, chat).raised
           \/ "name" \notin DOMAIN rule
           \/ "description" \notin DOMAIN rule
    /\ response' = ErrorResponse(500, "rule")
    /\ pc' = "done"
    /\ llmCalls' = llmCalls + CheckRuleWithLlm(rulesFile.rules[idx], userInputs, chat).calls
    /\ UNCHANGED <<request, rulesFile, userInputs, idx, results, fileOnDisk,
                   raw, verdict, ckText, ckRule, ckOut,
                   reportVars, evalVars, promptVars, validatorVars, apiVars>>

\* after the loop: os.remove(filepath), the summary, the response
UploadFinish ==
    /\ pc = "loop" /\ idx > Len(rulesFile.rules)
    /\ fileOnDisk' = FALSE
    /\ response' = [status |-> 200, error |-> "", summary |-> Summary(results),
                    results |-> results]
    /\ pc' = "done"
    /\ UNCHANGED <<request, rulesFile, userInputs, idx, results,
                   raw, verdict, ckText, ckRule, ckOut,
                   reportVars, evalVars, promptVars, validatorVars, apiVars, llmCalls>>

----------------------------------------------------------------------------
(* src/backend.py: ChecklistValidator *)

\* len(re.findall(re.escape(keyword), text, re.IGNORECASE)): the matches are
\* taken left to right, each search resuming where the last match ended; the
\* empty pattern matches once at every position, the end included
RECURSIVE FindAllFrom(_, _, _)
FindAllFrom(keyword, text, i) ==
    IF keyword = <<>> THEN Len(text) + 2 - i
    ELSE IF i + Len(keyword) - 1 > Len(text) THEN 0
    ELSE IF Lower(SubSeq(text, i, i + Len(keyword) - 1)) = Lower(keyword)
         THEN 1 + FindAllFrom(keyword, text, i + Len(keyword))
         ELSE FindAllFrom(keyword, text, i + 1)

CountMatches(keyword, text) == FindAllFrom(keyword, text, 1)

RECURSIVE SumSeq(_)
SumSeq(ns) == IF ns = <<>> THEN 0 ELSE Head(ns) + SumSeq(Tail(ns))

\* a template is a sequence of pieces: literal text, or a {placeholder}
Lit(x)  == [ph |-> FALSE, x |-> x]
Hole(x) == [ph |-> TRUE,  x |-> x]

\* template.format(**args): [ok |-> FALSE] is the KeyError of a placeholder
\* that args does not name
Format(template, args) ==
    IF \E i \in 1..Len(template) : template[i].ph /\ template[i].x \notin DOMAIN args
    THEN [ok |-> FALSE, text |-> <<>>]
    ELSE [ok |-> TRUE,
          text |-> Join([i \in 1..Len(template) |->
                            IF template[i].ph THEN args[template[i].x]
                            ELSE <<template[i].x>>], <<>>)]

\* ", ".join(found_keywords) if found_keywords else "None"
JoinedKeywords(found) ==
    IF found = <<>> THEN <<"None">>
    ELSE Join([i \in 1..Len(found) |-> found[i]], <<", ">>)

CheckRaised(op) ==
    [op |-> op, raised |-> TRUE, passed |-> PyNone, found_count |-> 0,
     found_keywords |-> <<>>, found_value |-> <<>>, explanation |-> <<>>]

\* validate_keyword(text, rule)
ValidateKeyword(text, rule) ==
    LET keywords       == DictGet(rule, "keywords", <<>>)
        required_count == DictGet(rule, "required_count", 1)
        hit            == SelectSeq(keywords, LAMBDA k : CountMatches(k, text) > 0)
        found_count    == SumSeq([i \in 1..Len(hit) |-> CountMatches(hit[i], text)])
        passed         == Len(hit) >= required_count
    IN  IF "explanation_template" \notin DOMAIN rule THEN CheckRaised("keyword")
        ELSE LET e == Format(rule["explanation_template"],
                             [found_count    |-> <<ToString(found_count)>>,
                              found_keywords |-> JoinedKeywords(hit)])
             IN  IF ~e.ok THEN CheckRaised("keyword")
                 ELSE [op |-> "keyword", raised |-> FALSE, passed |-> PyBool(passed),
                       found_count |-> found_count, found_keywords |-> hit,
                       found_value |-> <<>>, explanation |-> e.text]

\* validate_negative_keyword with < for <= at line 139
ValidateNegativeKeyword_Strict(text, rule) ==
    LET keywords       == DictGet(rule, "keywords", <<>>)
        required_count == DictGet(rule, "required_count", 0)
        found_count    == SumSeq([i \in 1..Len(keywords) |-> CountMatches(keywords[i], text)])
        passed         == found_count < required_count
    IN  IF "explanation_template" \notin DOMAIN rule THEN CheckRaised("negative_keyword")
        ELSE LET e == Format(rule["explanation_template"],
                             [found_count |-> <<ToString(found_count)>>])
             IN  IF ~e.ok THEN CheckRaised("negative_keyword")
                 ELSE [op |-> "negative_keyword", raised |-> FALSE,
                       passed |-> PyBool(passed), found_count |-> found_count,
                       found_keywords |-> <<>>, found_value |-> <<>>, explanation |-> e.text]

\* validate_negative_keyword(text, rule)
ValidateNegativeKeyword(text, rule) ==
    LET keywords       == DictGet(rule, "keywords", <<>>)
        required_count == DictGet(rule, "required_count", 0)
        found_count    == SumSeq([i \in 1..Len(keywords) |-> CountMatches(keywords[i], text)])
        passed         == found_count <= required_count
    IN  IF "explanation_template" \notin DOMAIN rule THEN CheckRaised("negative_keyword")
        ELSE LET e == Format(rule["explanation_template"],
                             [found_count |-> <<ToString(found_count)>>])
             IN  IF ~e.ok THEN CheckRaised("negative_keyword")
                 ELSE [op |-> "negative_keyword", raised |-> FALSE,
                       passed |-> PyBool(passed), found_count |-> found_count,
                       found_keywords |-> <<>>, found_value |-> <<>>, explanation |-> e.text]

\* re.search(rf"^{name}|#{name}|\*{name}\*", text, re.IGNORECASE | re.MULTILINE)
\* with name = re.escape(section_name): the literal lit occurs at position i
LiteralAt(lit, text, i) ==
    /\ i + Len(lit) - 1 <= Len(text)
    /\ Lower(SubSeq(text, i, i + Len(lit) - 1)) = Lower(lit)

\* where ^ matches under re.MULTILINE
LineStart(text, i) == i = 1 \/ text[i - 1] = "\n"

\* the text of a template that was not passed through format()
TemplateText(template) ==
    Join([i \in 1..Len(template) |->
             IF template[i].ph THEN <<"{", template[i].x, "}">>
             ELSE <<template[i].x>>], <<>>)

\* validate_section_header with \*name for \*name\* at line 117
ValidateSectionHeader_OpenBold(text, rule) ==
    LET section_name == DictGet(rule, "section_name", <<>>)
        found == \E i \in 1..(Len(text) + 1) :
                    \/ LineStart(text, i) /\ LiteralAt(section_name, text, i)
                    \/ LiteralAt(<<"#">> \o section_name, text, i)
                    \/ LiteralAt(<<"*">> \o section_name, text, i)
    IN  IF "explanation_template" \notin DOMAIN rule THEN CheckRaised("section_header")
        ELSE [op |-> "section_header", raised |-> FALSE, passed |-> PyBool(found),
              found_count |-> 0, found_keywords |-> <<>>, found_value |-> <<>>,
              explanation |-> TemplateText(rule["explanation_template"])]

\* validate_section_header(text, rule)
ValidateSectionHeader(text, rule) ==
    LET section_name == DictGet(rule, "section_name", <<>>)
        found == \E i \in 1..(Len(text) + 1) :
                    \/ LineStart(text, i) /\ LiteralAt(section_name, text, i)
                    \/ LiteralAt(<<"#">> \o section_name, text, i)
                    \/ LiteralAt(<<"*">> \o section_name \o <<"*">>, text, i)
    IN  IF "explanation_template" \notin DOMAIN rule THEN CheckRaised("section_header")
        ELSE [op |-> "section_header", raised |-> FALSE, passed |-> PyBool(found),
              found_count |-> 0, found_keywords |-> <<>>, found_value |-> <<>>,
              explanation |-> TemplateText(rule["explanation_template"])]

\* a pattern as re compiles it: alternatives tried in order, each a sequence
\* of atoms (a literal character, or '.', any character but a newline);
\* ok = FALSE is a pattern re rejects (re.error)
Ch(c)         == [any |-> FALSE, c |-> c]
Dot           == [any |-> TRUE,  c |-> "."]
Pattern(alts) == [ok |-> TRUE,  alts |-> alts]
BadPattern    == [ok |-> FALSE, alts |-> <<>>]

AtomMatches(atom, c, flags) ==
    IF atom.any THEN c # "\n"
    ELSE IF "IGNORECASE" \in flags THEN LowerChar(c) = LowerChar(atom.c)
    ELSE c = atom.c

\* the alternative alt matches the text at position i
AltAt(alt, text, i, flags) ==
    /\ i + Len(alt) - 1 <= Len(text)
    /\ \A j \in 1..Len(alt) : AtomMatches(alt[j], text[i + j - 1], flags)

\* re.search(pattern, text, flags): the leftmost position where an alternative
\* matches, and there the first alternative that does; group is match.group(0)
Search(pattern, text, flags) ==
    LET hits == {i \in 1..(Len(text) + 1) :
                    \E a \in 1..Len(pattern.alts) : AltAt(pattern.alts[a], text, i, flags)}
    IN  IF hits = {} THEN [found |-> FALSE, group |-> <<>>]
        ELSE LET i == CHOOSE x \in hits : \A y \in hits : x <= y
                 a == CHOOSE x \in 1..Len(pattern.alts) :
                         /\ AltAt(pattern.alts[x], text, i, flags)
                         /\ \A y \in 1..(x - 1) : ~AltAt(pattern.alts[y], text, i, flags)
             IN  [found |-> TRUE,
                  group |-> SubSeq(text, i, i + Len(pattern.alts[a]) - 1)]

\* validate_exact_match without re.IGNORECASE at line 75
ValidateExactMatch_CaseSensitive(text, rule) ==
    LET pattern == DictGet(rule, "search_pattern", Pattern(<< <<>> >>))
    IN  IF ~pattern.ok THEN CheckRaised("exact_match")
        ELSE LET match       == Search(pattern, text, {})
                 found_value == IF match.found THEN match.group ELSE <<"Not found">>
             IN  IF "explanation_template" \notin DOMAIN rule
                 THEN CheckRaised("exact_match")
                 ELSE LET e == Format(rule["explanation_template"],
                                      [found_value |-> found_value])
                      IN  IF ~e.ok THEN CheckRaised("exact_match")
                          ELSE [op |-> "exact_match", raised |-> FALSE,
                                passed |-> PyBool(match.found), found_count |-> 0,
                                found_keywords |-> <<>>, found_value |-> found_value,
                                explanation |-> e.text]

\* validate_exact_match(text, rule)
ValidateExactMatch(text, rule) ==
    LET pattern == DictGet(rule, "search_pattern", Pattern(<< <<>> >>))
    IN  IF ~pattern.ok THEN CheckRaised("exact_match")
        ELSE LET match       == Search(pattern, text, {"IGNORECASE"})
                 found_value == IF match.found THEN match.group ELSE <<"Not found">>
             IN  IF "explanation_template" \notin DOMAIN rule
                 THEN CheckRaised("exact_match")
                 ELSE LET e == Format(rule["explanation_template"],
                                      [found_value |-> found_value])
                      IN  IF ~e.ok THEN CheckRaised("exact_match")
                          ELSE [op |-> "exact_match", raised |-> FALSE,
                                passed |-> PyBool(match.found), found_count |-> 0,
                                found_keywords |-> <<>>, found_value |-> found_value,
                                explanation |-> e.text]

----------------------------------------------------------------------------
(* src/backend.py: validate_all_rules, upload_report *)

\* rule.get("check_type", "keyword")
CheckTypeOf(rule) == DictGet(rule, "check_type", "keyword")

\* the if/elif chain of validate_all_rules
Dispatch(report_text, rule) ==
    CASE CheckTypeOf(rule) = "exact_match"      -> ValidateExactMatch(report_text, rule)
      [] CheckTypeOf(rule) = "keyword"          -> ValidateKeyword(report_text, rule)
      [] CheckTypeOf(rule) = "section_header"   -> ValidateSectionHeader(report_text, rule)
      [] CheckTypeOf(rule) = "negative_keyword" -> ValidateNegativeKeyword(report_text, rule)
      [] OTHER -> [op |-> "unknown", raised |-> FALSE, passed |-> PyBool(FALSE),
                   found_count |-> 0, found_keywords |-> <<>>, found_value |-> <<>>,
                   explanation |-> <<"Unknown check type">>]

\* one iteration of the loop raises: KeyError at rule["rule_id"],
\* rule['rule_name'], rule["severity"], or an exception of the checker
RuleRaises(report_text, rule) ==
    \/ "rule_id" \notin DOMAIN rule
    \/ "rule_name" \notin DOMAIN rule
    \/ Dispatch(report_text, rule).raised
    \/ "severity" \notin DOMAIN rule

\* validate_all_rules(report_text) from the rule at position i on, acc being
\* results so far: raised when an exception leaves the function
RECURSIVE ValidateFrom(_, _, _, _)
ValidateFrom(report_text, rules, i, acc) ==
    IF i > Len(rules) THEN [raised |-> FALSE, results |-> acc]
    ELSE IF RuleRaises(report_text, rules[i]) THEN [raised |-> TRUE, results |-> <<>>]
    ELSE ValidateFrom(report_text, rules, i + 1,
             Append(acc, [rule_id     |-> rules[i]["rule_id"],
                          rule_name   |-> rules[i]["rule_name"],
                          severity    |-> rules[i]["severity"],
                          passed      |-> Dispatch(report_text, rules[i]).passed,
                          explanation |-> Dispatch(report_text, rules[i]).explanation]))

ValidateAllRules(report_text, rules) == ValidateFrom(report_text, rules, 1, <<>>)

\* [r for r in validation_results if not r["passed"]]: every failure, whatever
\* its severity
CriticalFailures_AnySeverity(validation_results) ==
    SelectSeq(validation_results, LAMBDA r : ~Truthy(r.passed))

\* [r for r in validation_results if not r["passed"] and r["severity"] == "critical"]
CriticalFailures(validation_results) ==
    SelectSeq(validation_results,
              LAMBDA r : ~Truthy(r.passed) /\ r.severity = "critical")

\* Calculate summary
ReportSummary(validation_results) ==
    LET total_rules  == Len(validation_results)
        passed_rules == Len(SelectSeq(validation_results, LAMBDA r : Truthy(r.passed)))
        critical_failures == CriticalFailures(validation_results)
    IN  [total_rules       |-> total_rules,
         passed_rules      |-> passed_rules,
         failed_rules      |-> total_rules - passed_rules,
         critical_failures |-> Len(critical_failures),
         overall_status    |-> IF Len(critical_failures) = 0 THEN "PASS" ELSE "FAIL"]

NoReportSummary == [total_rules |-> 0, passed_rules |-> 0, failed_rules |-> 0,
                    critical_failures |-> 0, overall_status |-> "none"]
NoReportResponse == [status |-> 0, error |-> "", summary |-> NoReportSummary,
                     results |-> <<>>]

ReportError(status, error) ==
    [status |-> status, error |-> error, summary |-> NoReportSummary, results |-> <<>>]

\* s.endswith(suffix)
EndsWith(s, suffix) ==
    /\ Len(s) >= Len(suffix)
    /\ SubSeq(s, Len(s) - Len(suffix) + 1, Len(s)) = suffix

X_docx == <<".","d","o","c","x">>
X_pdf  == <<".","p","d","f">>

\* the filename passes the test of line 243
ReportAccepted(req) ==
    /\ req.hasFile /\ req.filename # <<>>
    /\ EndsWith(Lower(req.filename), X_docx) \/ EndsWith(Lower(req.filename), X_pdf)

\* ReportProcessor.extract_text: Document() raises on a file it cannot read,
\* extract_text_from_pdf catches every error and returns what it has read
ExtractRaises(req) == EndsWith(Lower(req.filename), X_docx) /\ ~req.readable
ExtractedText(req) == IF req.readable THEN req.text ELSE <<>>

\* the three early returns of upload_report
ReportReject(req) ==
    /\ pc = "rp_idle"
    /\ ~ReportAccepted(req)
    /\ rpRequest' = req
    /\ rpResponse' = ReportError(400,
           IF ~req.hasFile THEN "No file part"
           ELSE IF req.filename = <<>> THEN "No selected file"
           ELSE "Only DOCX and PDF files are supported")
    /\ pc' = "rp_done"
    /\ UNCHANGED <<request, rulesFile, userInputs, idx, results, fileOnDisk,
                   response, raw, verdict, ckText, ckRule, ckOut,
                   checklist, rpFile, evalVars, promptVars, validatorVars, apiVars, llmCalls>>

\* file.save, then extract_text raises: no handler, the framework answers 500
ReportExtractFails(req) ==
    /\ pc = "rp_idle"
    /\ ReportAccepted(req) /\ ExtractRaises(req)
    /\ rpRequest' = req
    /\ rpFile' = TRUE
    /\ rpResponse' = ReportError(500, "extract")
    /\ pc' = "rp_done"
    /\ UNCHANGED <<request, rulesFile, userInputs, idx, results, fileOnDisk,
                   response, raw, verdict, ckText, ckRule, ckOut,
                   checklist, evalVars, promptVars, validatorVars, apiVars, llmCalls>>

\* file.save, then `if not report_text`: os.remove and 400
ReportNoText(req) ==
    /\ pc = "rp_idle"
    /\ ReportAccepted(req) /\ ~ExtractRaises(req)
    /\ ExtractedText(req) = <<>>
    /\ rpRequest' = req
    /\ rpFile' = FALSE
    /\ rpResponse' = ReportError(400, "Failed to extract text from file")
    /\ pc' = "rp_done"
    /\ UNCHANGED <<request, rulesFile, userInputs, idx, results, fileOnDisk,
                   response, raw, verdict, ckText, ckRule, ckOut,
                   checklist, evalVars, promptVars, validatorVars, apiVars, llmCalls>>

\* validate_all_rules raises: no handler, the framework answers 500
ReportRuleFails(req) ==
    /\ pc = "rp_idle"
    /\ ReportAccepted(req) /\ ~ExtractRaises(req)
    /\ ExtractedText(req) # <<>>
    /\ ValidateAllRules(ExtractedText(req), checklist).raised
    /\ rpRequest' = req
    /\ rpFile' = TRUE
    /\ rpResponse' = ReportError(500, "rule")
    /\ pc' = "rp_done"
    /\ UNCHANGED <<request, rulesFile, userInputs, idx, results, fileOnDisk,
                   response, raw, verdict, ckText, ckRule, ckOut,
                   checklist, evalVars, promptVars, validatorVars, apiVars, llmCalls>>

\* the run to the final return: the results and their summary; the saved
\* file is left in UPLOAD_FOLDER
ReportDone(req) ==
    /\ pc = "rp_idle"
    /\ ReportAccepted(req) /\ ~ExtractRaises(req)
    /\ ExtractedText(req) # <<>>
    /\ LET v == ValidateAllRules(ExtractedText(req), checklist)
       IN  /\ ~v.raised
           /\ rpResponse' = [status |-> 200, error |-> "",
                             summary |-> ReportSummary(v.results),
                             results |-> v.results]
    /\ rpRequest' = req
    /\ rpFile' = TRUE
    /\ pc' = "rp_done"
    /\ UNCHANGED <<request, rulesFile, userInputs, idx, results, fileOnDisk,
                   response, raw, verdict, ckText, ckRule, ckOut,
                   checklist, evalVars, promptVars, validatorVars, apiVars, llmCalls>>

----------------------------------------------------------------------------
(* src/backend/app.py: check_client_name_rule, check_audit_period_rule, *)
(* check_rule_with_llm                                                   *)

K_satisfied  == <<"satisfied">>
K_confidence == <<"confidence">>
K_reasoning  == <<"reasoning">>

\* what requests.post gave: an exception (connection refused, timeout), or
\* a response with its status code and body; json = FALSE is a body that
\* response.json() rejects, hasText = FALSE a body without 'response'
PostError(e) ==
    [kind |-> "error", error |-> e, status |-> 0, json |-> FALSE,
     hasText |-> FALSE, text |-> <<>>]

PostReply(status, json, hasText, text) ==
    [kind |-> "response", error |-> "", status |-> status, json |-> json,
     hasText |-> hasText, text |-> text]

\* the dict the two fallback returns build
NotVerified(reasoning) ==
    [k \in {K_satisfied, K_confidence, K_reasoning} |->
        CASE k = K_satisfied  -> PyBool(FALSE)
          [] k = K_confidence -> PyNum(0)
          [] OTHER            -> PyStr(reasoning)]

M_CouldNot(what) ==
    IF what = "client_name" THEN <<"Could not verify client name against report">>
    ELSE <<"Could not verify audit period against report">>

M_VerifyError(what, e) ==
    IF what = "client_name" THEN <<"Error during client name verification: ", e>>
    ELSE <<"Error during audit period verification: ", e>>

\* the requests one check sends for one outcome of requests.post: the call of
\* lines 80-88 (144-152) is the only one of the function
PostsSent(post) == 1

\* the body of check_client_name_rule and of check_audit_period_rule from the
\* request on: the dict returned
VerifyWithLlm(what, post) ==
    IF post.kind = "error" THEN NotVerified(M_VerifyError(what, post.error))
    ELSE IF post.status # 200 THEN NotVerified(M_CouldNot(what))
    ELSE IF ~post.json THEN NotVerified(M_VerifyError(what, "invalid body"))
    ELSE LET response_text == StripText(IF post.hasText THEN post.text
                                        ELSE <<LBRACE, RBRACE>>)
             json_start    == Find(response_text, <<LBRACE>>) - 1
             json_end      == (RFind(response_text, <<RBRACE>>) - 1) + 1
         IN  IF json_start >= 0 /\ json_end > json_start
             THEN LET parsed == JsonLoads(SubSeq(response_text, json_start + 1, json_end))
                  IN  IF parsed.ok THEN parsed.d ELSE NotVerified(M_CouldNot(what))
             ELSE NotVerified(M_CouldNot(what))

CheckClientNameRule(post)  == VerifyWithLlm("client_name", post)
CheckAuditPeriodRule(post) == VerifyWithLlm("audit_period", post)

\* check_rule_with_llm(rule, report_text, context_data) of src/backend/app.py:
\* raised is the KeyError of rule['type'] or the AttributeError of
\* context_data.get when context_data is None
RouteRule(rule, hasContext, post) ==
    IF "type" \notin DOMAIN rule
    THEN [raised |-> TRUE, res |-> EmptyDict, calls |-> 0]
    ELSE IF rule["type"] \in {"client_name", "audit_period"}
    THEN IF ~hasContext
         THEN [raised |-> TRUE, res |-> EmptyDict, calls |-> 0]
         ELSE [raised |-> FALSE,
               res    |-> IF rule["type"] = "client_name"
                          THEN CheckClientNameRule(post) ELSE CheckAuditPeriodRule(post),
               calls  |-> PostsSent(post)]
    ELSE [raised |-> FALSE, res |-> NotVerified(<<"Unknown rule type">>), calls |-> 0]

----------------------------------------------------------------------------
(* src/backend/app.py: review_report, upload_report *)

API_ALLOWED_EXTENSIONS == {<<"d","o","c","x">>, <<"t","x","t">>}

\* allowed_file(filename) of src/backend/app.py
ApiAllowedFile(filename) ==
    /\ Has(filename, <<".">>)
    /\ Lower(SubSeq(filename, RFind(filename, <<".">>) + 1, Len(filename)))
           \in API_ALLOWED_EXTENSIONS

NoApiResponse ==
    [status |-> 0, error |-> "", compliance_score |-> 0, total_rules |-> 0,
     satisfied_rules |-> 0, results |-> <<>>]

ApiError(status, error) == [NoApiResponse EXCEPT !.status = status, !.error = error]

\* results.append({...}) of review_report: check_result[...] raises a KeyError
\* for a key the dict lacks
ReviewEntry(rule, check_result) ==
    [rule_id    |-> rule["id"],
     rule_name  |-> rule["name"],
     importance |-> rule["importance"],
     satisfied  |-> check_result[K_satisfied],
     confidence |-> check_result[K_confidence],
     reasoning  |-> check_result[K_reasoning]]

\* results.append({...}) of upload_report: check_result.get with defaults
UploadEntry(rule, check_result) ==
    [rule_id    |-> rule["id"],
     rule_name  |-> rule["name"],
     importance |-> rule["importance"],
     satisfied  |-> DictGet(check_result, K_satisfied, PyBool(FALSE)),
     confidence |-> DictGet(check_result, K_confidence, PyNum(0)),
     reasoning  |-> DictGet(check_result, K_reasoning,
                            PyStr(<<"No explanation available">>))]

\* results.append(entry)
Collect_Front(rs, entry) == <<entry>> \o rs

Collect(rs, entry) == Append(rs, entry)

\* sum(1 for r in results if r['satisfied'])
SatisfiedCount(rs) == Cardinality({i \in 1..Len(rs) : Truthy(rs[i].satisfied)})

\* round(satisfied_count / total_rules * 100, 2), in hundredths (no ratio of
\* the rule sets modelled lies half way between two hundredths)
ComplianceScore(satisfied_count, total_rules) ==
    IF total_rules > 0
    THEN (2 * satisfied_count * 10000 + total_rules) \div (2 * total_rules)
    ELSE 0

\* the body of the loop raises: rule['type'], context_data.get on None,
\* rule['id'], rule['name'], rule['importance'], or a key of check_result
EntryRaises(rule, hasContext, post) ==
    LET r == RouteRule(rule, hasContext, post)
    IN  \/ r.raised
        \/ ~({"id", "name", "importance"} \subseteq DOMAIN rule)
        \/ ~hasContext /\ ~({K_satisfied, K_confidence, K_reasoning} \subseteq DOMAIN r.res)

\* review_report: `if not report_text.strip()`
ApiReviewReject(req) ==
    /\ pc = "api_idle"
    /\ req.endpoint = "review"
    /\ StripStr(req.text) = <<>>
    /\ apiRequest' = req
    /\ apiResponse' = ApiError(400, "Report text is required")
    /\ pc' = "api_done"
    /\ UNCHANGED <<request, rulesFile, userInputs, idx, results, fileOnDisk,
                   response, raw, verdict, ckText, ckRule, ckOut,
                   reportVars, evalVars, promptVars, validatorVars, llmCalls,
                   apiRules, apiContext, apiIdx, apiResults, apiFile>>

\* review_report up to the first iteration of the loop: the rules are checked
\* without context_data
ApiReviewStart(req) ==
    /\ pc = "api_idle"
    /\ req.endpoint = "review"
    /\ StripStr(req.text) # <<>>
    /\ apiRequest' = req
    /\ apiContext' = FALSE
    /\ apiIdx' = 1
    /\ apiResults' = <<>>
    /\ pc' = "api_loop"
    /\ UNCHANGED <<request, rulesFile, userInputs, idx, results, fileOnDisk,
                   response, raw, verdict, ckText, ckRule, ckOut,
                   reportVars, evalVars, promptVars, validatorVars, llmCalls,
                   apiRules, apiFile, apiResponse>>

\* upload_report: the five early returns before the try block
ApiUploadRejected(req) ==
    \/ ~req.hasFile
    \/ req.filename = <<>>
    \/ ~ApiAllowedFile(req.filename)
    \/ StripStr(req.client_name) = <<>>
    \/ StripStr(req.audit_start) = <<>> \/ StripStr(req.audit_end) = <<>>

ApiUploadReject(req) ==
    /\ pc = "api_idle"
    /\ req.endpoint = "upload"
    /\ ApiUploadRejected(req)
    /\ apiRequest' = req
    /\ apiResponse' = ApiError(400,
           IF ~req.hasFile THEN "No file provided"
           ELSE IF req.filename = <<>> THEN "No file selected"
           ELSE IF ~ApiAllowedFile(req.filename) THEN "Only docx, txt files are allowed"
           ELSE IF StripStr(req.client_name) = <<>> THEN "Client name is required"
           ELSE "Audit period (start and end dates) is required")
    /\ pc' = "api_done"
    /\ UNCHANGED <<request, rulesFile, userInputs, idx, results, fileOnDisk,
                   response, raw, verdict, ckText, ckRule, ckOut,
                   reportVars, evalVars, promptVars, validatorVars, llmCalls,
                   apiRules, apiContext, apiIdx, apiResults, apiFile>>

\* file.save, then extract_text_from_file raises a ValueError: the handler
\* answers 400 and os.remove was not reached
ApiUploadExtractFails(req) ==
    /\ pc = "api_idle"
    /\ req.endpoint = "upload"
    /\ ~ApiUploadRejected(req) /\ ~req.readable
    /\ apiRequest' = req
    /\ apiFile' = TRUE
    /\ apiResponse' = ApiError(400, "extract")
    /\ pc' = "api_done"
    /\ UNCHANGED <<request, rulesFile, userInputs, idx, results, fileOnDisk,
                   response, raw, verdict, ckText, ckRule, ckOut,
                   reportVars, evalVars, promptVars, validatorVars, llmCalls,
                   apiRules, apiContext, apiIdx, apiResults>>

\* file.save, the text is extracted, os.remove, `if not report_text.strip()`
ApiUploadNoText(req) ==
    /\ pc = "api_idle"
    /\ req.endpoint = "upload"
    /\ ~ApiUploadRejected(req) /\ req.readable
    /\ StripStr(req.text) = <<>>
    /\ apiRequest' = req
    /\ apiFile' = FALSE
    /\ apiResponse' = ApiError(400, "File is empty or could not be read")
    /\ pc' = "api_done"
    /\ UNCHANGED <<request, rulesFile, userInputs, idx, results, fileOnDisk,
                   response, raw, verdict, ckText, ckRule, ckOut,
                   reportVars, evalVars, promptVars, validatorVars, llmCalls,
                   apiRules, apiContext, apiIdx, apiResults>>

\* upload_report up to the first iteration of the loop
ApiUploadStart(req) ==
    /\ pc = "api_idle"
    /\ req.endpoint = "upload"
    /\ ~ApiUploadRejected(req) /\ req.readable
    /\ StripStr(req.text) # <<>>
    /\ apiRequest' = req
    /\ apiFile' = FALSE
    /\ apiContext' = TRUE
    /\ apiIdx' = 1
    /\ apiResults' = <<>>
    /\ pc' = "api_loop"
    /\ UNCHANGED <<request, rulesFile, userInputs, idx, results, fileOnDisk,
                   response, raw, verdict, ckText, ckRule, ckOut,
                   reportVars, evalVars, promptVars, validatorVars, llmCalls,
                   apiRules, apiResponse>>

\* one iteration of `for rule in CHECKLIST_RULES['rules']` whose body completes
ApiCheckRule(post) ==
    /\ pc = "api_loop" /\ apiIdx <= Len(apiRules)
    /\ ~EntryRaises(apiRules[apiIdx], apiContext, post)
    /\ LET rule == apiRules[apiIdx]
           r    == RouteRule(rule, apiContext, post)
       IN  /\ apiResults' = Collect(apiResults,
                               IF apiContext THEN UploadEntry(rule, r.res)
                               ELSE ReviewEntry(rule, r.res))
           /\ llmCalls' = llmCalls + r.calls
    /\ apiIdx' = apiIdx + 1
    /\ UNCHANGED <<pc, request, rulesFile, userInputs, idx, results, fileOnDisk,
                   response, raw, verdict, ckText, ckRule, ckOut,
                   reportVars, evalVars, promptVars, validatorVars,
                   apiRules, apiRequest, apiContext, apiFile, apiResponse>>

\* one iteration whose body raises: except Exception of upload_report, or,
\* review_report having no handler, the framework; 500 either way
ApiRuleRaises(post) ==
    /\ pc = "api_loop" /\ apiIdx <= Len(apiRules)
    /\ EntryRaises(apiRules[apiIdx], apiContext, post)
    /\ llmCalls' = llmCalls + RouteRule(apiRules[apiIdx], apiContext, post).calls
    /\ apiResponse' = ApiError(500, "rule")
    /\ pc' = "api_done"
    /\ UNCHANGED <<request, rulesFile, userInputs, idx, results, fileOnDisk,
                   response, raw, verdict, ckText, ckRule, ckOut,
                   reportVars, evalVars, promptVars, validatorVars,
                   apiRules, apiRequest, apiContext, apiIdx, apiResults, apiFile>>

\* after the loop: the compliance figures and the response
ApiFinish ==
    /\ pc = "api_loop" /\ apiIdx > Len(apiRules)
    /\ apiResponse' =
          [status           |-> 200,
           error            |-> "",
           compliance_score |-> ComplianceScore(SatisfiedCount(apiResults),
                                                Len(apiResults)),
           total_rules      |-> Len(apiResults),
           satisfied_rules  |-> SatisfiedCount(apiResults),
           results          |-> apiResults]
    /\ pc' = "api_done"
    /\ UNCHANGED <<request, rulesFile, userInputs, idx, results, fileOnDisk,
                   response, raw, verdict, ckText, ckRule, ckOut,
                   reportVars, evalVars, promptVars, validatorVars, llmCalls,
                   apiRules, apiRequest, apiContext, apiIdx, apiResults, apiFile>>

----------------------------------------------------------------------------
(* src/validator.py: ReportValidator *)

\* check_keyword(text, rule)
CheckKeyword(text, rule) ==
    LET keywords        == DictGet(rule, "keywords", <<>>)
        min_occurrences == DictGet(rule, "min_occurrences", 1)
        found_count     == SumSeq([i \in 1..Len(keywords) |->
                                      CountMatches(keywords[i], text)])
    IN  found_count >= min_occurrences

\* check_section(text, rule): ^\s*name under IGNORECASE | MULTILINE
CheckSection(text, rule) ==
    LET section_name == DictGet(rule, "section_name", <<>>)
    IN  \E i \in 1..(Len(text) + 1) :
            /\ LineStart(text, i)
            /\ \E j \in i..(Len(text) + 1) :
                  /\ \A k \in i..(j - 1) : IsSpace(text[k])
                  /\ LiteralAt(section_name, text, j)

\* check_exact_match(text, rule): raised is the re.error of a pattern that
\* does not compile
CheckExactMatch(text, rule) ==
    LET pattern == DictGet(rule, "pattern", Pattern(<< <<>> >>))
    IN  IF pattern = Pattern(<< <<>> >>) THEN [raised |-> FALSE, passed |-> FALSE]
        ELSE IF ~pattern.ok THEN [raised |-> TRUE, passed |-> FALSE]
        ELSE [raised |-> FALSE,
              passed |-> Search(pattern, text, {"IGNORECASE"}).found]

\* the branch on check_type in validate
RunCheck(text, rule) ==
    CASE rule["check_type"] = "keyword" ->
            [raised |-> FALSE, passed |-> CheckKeyword(text, rule)]
      [] rule["check_type"] = "section" ->
            [raised |-> FALSE, passed |-> CheckSection(text, rule)]
      [] rule["check_type"] = "exact_match" -> CheckExactMatch(text, rule)
      [] OTHER -> [raised |-> FALSE, passed |-> FALSE]

\* the for loop of validate from rule i on.  run: the entries appended to
\* self.results and the counters so far; raised: a KeyError (rule_id,
\* rule_name, check_type, severity, explanation) or a re.error left the loop
RECURSIVE ValidateLoop(_, _, _, _)
ValidateLoop(text, rules, i, run) ==
    IF i > Len(rules) THEN run
    ELSE LET rule == rules[i]
         IN  IF ~({"rule_id", "rule_name", "check_type", "severity"} \subseteq DOMAIN rule)
             THEN [run EXCEPT !.raised = TRUE]
             ELSE LET check == RunCheck(text, rule)
                      stored == Append(run.appended,
                                   [rule_id |-> rule["rule_id"],
                                    rule_name |-> rule["rule_name"],
                                    severity |-> rule["severity"],
                                    passed |-> check.passed])
                  IN  IF check.raised THEN [run EXCEPT !.raised = TRUE]
                      ELSE IF ~check.passed /\ "explanation" \notin DOMAIN rule
                      THEN [run EXCEPT !.raised = TRUE, !.appended = stored]
                      ELSE ValidateLoop(text, rules, i + 1,
                              [raised            |-> FALSE,
                               appended          |-> stored,
                               critical_failures |->
                                   IF ~check.passed /\ rule["severity"] = "critical"
                                   THEN run.critical_failures + 1
                                   ELSE run.critical_failures,
                               high_failures     |->
                                   IF ~check.passed /\ rule["severity"] = "high"
                                   THEN run.high_failures + 1
                                   ELSE run.high_failures,
                               passed_rules      |->
                                   IF check.passed THEN run.passed_rules + 1
                                   ELSE run.passed_rules])

RunOf(text, rules) ==
    ValidateLoop(text, rules, 1,
                 [raised |-> FALSE, appended |-> <<>>, critical_failures |-> 0,
                  high_failures |-> 0, passed_rules |-> 0])

\* extract_text(file_path): a file is its extension, whether its format can be
\* read, and its text.  A pdf that cannot be read yields the text read so far
\* (none); a docx that cannot be read, or another extension, raises
VdExtractRaises(file) ==
    \/ file.ext = "docx" /\ ~file.readable
    \/ file.ext \notin {"docx", "pdf"}

VdExtractedText(file) == IF file.readable THEN file.text ELSE <<>>

NoReturn ==
    [kind |-> "nothing", passed |-> FALSE, critical_failures |-> 0,
     high_failures |-> 0, passed_rules |-> 0, total_rules |-> 0, results |-> <<>>]

\* the validate() calls made on one ReportValidator
MaxRuns == 3

\* validate(file_path): extraction fails, None is returned
ValidateNoText(file) ==
    /\ pc = "vd_ready"
    /\ vdRuns < MaxRuns
    /\ VdExtractRaises(file)
    /\ vdFile' = file
    /\ vdReturn' = [NoReturn EXCEPT !.kind = "None"]
    /\ vdRuns' = vdRuns + 1
    /\ UNCHANGED <<pc, request, rulesFile, userInputs, idx, results, fileOnDisk,
                   response, raw, verdict, ckText, ckRule, ckOut,
                   reportVars, evalVars, promptVars, apiVars, llmCalls,
                   vdChecklist, vdResults>>

\* validate(file_path): an exception leaves the loop; the results stored
\* before it stay in self.results
ValidateRaises(file) ==
    /\ pc = "vd_ready"
    /\ vdRuns < MaxRuns
    /\ ~VdExtractRaises(file)
    /\ LET run == RunOf(VdExtractedText(file), vdChecklist)
       IN  /\ run.raised
           /\ vdResults' = vdResults \o run.appended
    /\ vdFile' = file
    /\ vdReturn' = [NoReturn EXCEPT !.kind = "raised"]
    /\ vdRuns' = vdRuns + 1
    /\ UNCHANGED <<pc, request, rulesFile, userInputs, idx, results, fileOnDisk,
                   response, raw, verdict, ckText, ckRule, ckOut,
                   reportVars, evalVars, promptVars, apiVars, llmCalls, vdChecklist>>

\* validate(file_path): every rule is checked and the summary is returned
ValidateReturns(file) ==
    /\ pc = "vd_ready"
    /\ vdRuns < MaxRuns
    /\ ~VdExtractRaises(file)
    /\ LET run == RunOf(VdExtractedText(file), vdChecklist)
       IN  /\ ~run.raised
           /\ vdResults' = vdResults \o run.appended
           /\ vdReturn' =
                 [kind              |-> "value",
                  passed            |-> run.critical_failures = 0,
                  critical_failures |-> run.critical_failures,
                  high_failures     |-> run.high_failures,
                  passed_rules      |-> run.passed_rules,
                  total_rules       |-> Len(vdResults'),
                  results           |-> vdResults']
    /\ vdFile' = file
    /\ vdRuns' = vdRuns + 1
    /\ UNCHANGED <<pc, request, rulesFile, userInputs, idx, results, fileOnDisk,
                   response, raw, verdict, ckText, ckRule, ckOut,
                   reportVars, evalVars, promptVars, apiVars, llmCalls, vdChecklist>>

----------------------------------------------------------------------------
(* The document excerpt of a prompt.  A document is given by its length:   *)
(* text[:n] holds the leading n characters, or the whole text when it is   *)
(* shorter.                                                                *)

\* len(text[:n])
SliceTo(length, n) == IF length < n THEN length ELSE n

\* src/app.py: the slice of document_text in the prompt of each kind
ExcerptBudget(kind) == IF kind = "no_input" THEN 10000 ELSE 20000

\* src/app.py: the characters of the document in the prompt
PromptExcerpt(kind, length) == SliceTo(length, ExcerptBudget(kind))

\* src/backend/app.py: {report_text} is put in the prompt whole
ReportExcerpt(length) == length

----------------------------------------------------------------------------
(* Inputs: responses of the generative service *)

\* marks a field a JSON object does not have
Absent == [t |-> "absent", b |-> FALSE, n |-> 0, s |-> <<>>, l |-> <<>>]

UpperChar(c) ==
    IF \E i \in 1..Len(Lowers) : Lowers[i] = c
    THEN Uppers[CHOOSE i \in 1..Len(Lowers) : Lowers[i] = c]
    ELSE c

Upper(s) == [i \in 1..Len(s) |-> UpperChar(s[i])]
Capitalize(s) == [i \in 1..Len(s) |-> IF i = 1 THEN UpperChar(s[i]) ELSE s[i]]

Spell(w, how) ==
    CASE how = "upper" -> Upper(w)
      [] how = "capitalized" -> Capitalize(w)
      [] OTHER -> w

\* the text of a JSON value
RECURSIVE Render(_)
Render(v) ==
    CASE v.t = "str"  -> <<TStr(v.s)>>
      [] v.t = "bool" -> IF v.b THEN <<TTRUE>> ELSE <<TFALSE>>
      [] v.t = "num"  -> <<TNUM>>
      [] v.t = "none" -> <<TNULL>>
      [] v.t = "dict" -> <<LBRACE, RBRACE>>
      [] v.t = "list" -> <<LBRACK>>
                         \o Join([i \in 1..Len(v.l) |-> Render(v.l[i])], <<COMMA, WS>>)
                         \o <<RBRACK>>

FieldOrder == <<K_passed, K_reason, K_locations, K_location>>

\* the JSON object with the given fields (Absent: the field is left out)
MkObj(p, r, ls, l) ==
    LET all == [k \in {K_passed, K_reason, K_locations, K_location} |->
                   CASE k = K_passed    -> p
                     [] k = K_reason    -> r
                     [] k = K_locations -> ls
                     [] OTHER           -> l]
    IN  [k \in {x \in DOMAIN all : all[x] # Absent} |-> all[k]]

\* the text of an object, one member per line
ObjText(d) ==
    LET keys == SelectSeq(FieldOrder, LAMBDA k : k \in DOMAIN d)
    IN  <<LBRACE, NL>>
        \o Join([i \in 1..Len(keys) |->
                    <<TStr(keys[i]), COLON, WS>> \o Render(d[keys[i]])], <<COMMA, NL>>)
        \o <<NL, RBRACE>>

\* what ollama.chat gave: shape, obj, pbase and ppad record how the text was
\* built (the object written into it; the word a string status was spelt
\* from, and whether blanks were put around it)
Chat(shape, text, obj, pbase, ppad) ==
    [kind |-> "text", error |-> "", text |-> text, shape |-> shape,
     obj |-> obj, pbase |-> pbase, ppad |-> ppad]

ChatError(e) ==
    [kind |-> "error", error |-> e, text |-> <<>>, shape |-> "error",
     obj |-> EmptyDict, pbase |-> <<>>, ppad |-> FALSE]

ChatErrors == {ChatError("connection refused"), ChatError("timed out"),
               ChatError("status 500")}

S_ok  == PyStr(<<"4 of 5 match">>)
S_loc == PyStr(<<"Section 1: 'SOC 2'">>)

StatusWords == {W_passed, W_partial, W_failed}
OtherWords  == {W_true, W_yes, <<"o","k">>, <<"n","o">>, <<>>}
Pads        == {<<>>, <<" ">>}

BareChat(obj, pbase, ppad) == Chat("bare", ObjText(obj), obj, pbase, ppad)

\* bare objects whose passed field is a string, in every spelling
StringStatusChats ==
    {BareChat(MkObj(PyStr(pre \o Spell(w, how) \o post), S_ok, Absent, Absent),
              w, pre # <<>> \/ post # <<>>) :
        w \in StatusWords \cup OtherWords,
        how \in {"lower", "upper", "capitalized"},
        pre \in Pads, post \in Pads}

\* bare objects whose passed field is no string, or is missing
OtherStatusChats ==
    {BareChat(MkObj(p, S_ok, Absent, Absent), <<>>, FALSE) :
        p \in {PyBool(TRUE), PyBool(FALSE), PyNone, PyNum(1), PyList(<<>>),
               PyList(<<PyStr(W_passed)>>), PyDict, Absent}}

\* bare objects with every combination of reason, locations and location
FieldChats ==
    {BareChat(MkObj(PyBool(TRUE), r, ls, l), <<>>, FALSE) :
        r  \in {Absent, S_ok, PyStr(<<>>), PyNone},
        ls \in {Absent, PyList(<<>>), PyList(<<S_loc, S_ok>>), S_loc, PyNone},
        l  \in {Absent, S_loc}}

P_sure  == <<TWord(<<"Sure!">>), WS>>
P_set   == <<TWord(<<"Result">>), WS, LBRACE, TWord(<<"draft">>), RBRACE, COLON, NL>>
P_hope  == <<NL, TWord(<<"Hope">>), WS, TWord(<<"this">>), WS, TWord(<<"helps">>)>>
P_lines == <<NL, TWord(<<"Notes">>), NL, TWord(<<"see">>), WS, LBRACE, TWord(<<"x">>), RBRACE>>

Leads  == {<<>>, P_sure, P_set}
Trails == {<<>>, P_hope, P_lines}

FencedObjs == {MkObj(PyStr(W_partial), S_ok, PyList(<<S_loc>>), Absent),
               MkObj(PyBool(TRUE), S_ok, PyList(<<>>), Absent)}

\* an object in a fenced block, tagged json or untagged, with prose around it
FencedChats ==
    {Chat(IF tagged THEN "tagged" ELSE "untagged",
          lead \o <<FENCE>> \o (IF tagged THEN <<TWord(W_json)>> ELSE <<>>) \o <<NL>>
               \o ObjText(obj) \o <<NL, FENCE>> \o trail,
          obj, <<>>, FALSE) :
        tagged \in BOOLEAN, lead \in Leads, trail \in Trails, obj \in FencedObjs}

DropLast(x) == SubSeq(x, 1, Len(x) - 1)

\* texts that hold no JSON object: truncated, malformed, no braces
BrokenTexts(obj) ==
    {DropLast(DropLast(ObjText(obj))),                  \* cut before the closing brace
     SubSeq(ObjText(obj), 1, 5),                         \* cut after the first colon
     DropLast(ObjText(obj)) \o <<COMMA, RBRACE>>,        \* trailing comma
     <<LBRACE, TWord(<<"passed">>), COLON, TTRUE, RBRACE>>,   \* unquoted key
     <<LBRACE, TStr(K_passed), WS, TTRUE, RBRACE>>,      \* no colon
     ObjText(obj) \o <<WS>> \o ObjText(obj),             \* two objects
     <<RBRACE, WS, LBRACE>>,                             \* braces the wrong way round
     <<TWord(<<"I">>), WS, TWord(<<"cannot">>), WS, TWord(<<"tell">>)>>,
     <<>>}

MalformedChats ==
    {Chat("malformed", t, EmptyDict, <<>>, FALSE) :
        t \in UNION {BrokenTexts(obj) : obj \in FencedObjs}}
    \cup
    {Chat("malformed", P_sure \o <<FENCE, TWord(W_json), NL>> \o t \o <<NL, FENCE>>,
          EmptyDict, <<>>, FALSE) :
        t \in UNION {BrokenTexts(obj) : obj \in FencedObjs}}

\* a line break or a tab written raw inside a string literal
RawBreakChats ==
    {Chat("rawbreak",
          ObjText(MkObj(PyBool(TRUE), PyStr(<<"4 of 5", c, "match">>), Absent, Absent)),
          MkObj(PyBool(TRUE), PyStr(<<"4 of 5", c, "match">>), Absent, Absent),
          <<>>, FALSE) : c \in {"\n", "\t", "\r"}}

NormChats == StringStatusChats \cup OtherStatusChats \cup FieldChats \cup FencedChats
             \cup MalformedChats \cup RawBreakChats \cup ChatErrors

----------------------------------------------------------------------------
(* Inputs: rule sets and upload requests of src/app.py *)

MaxRules == 2

N_soc    == PyStr(<<"S","O","C"," ","2">>)
N_dates  == PyStr(<<"R","e","p","o","r","t"," ","D","a","t","e","s">>)
N_class  == PyStr(<<"Report ", "classification">>)
D_any    == PyStr(<<"The report states it.">>)

R_plain  == [name |-> N_soc, description |-> D_any]
R_client == [name |-> N_soc, description |-> D_any,
             requires_input |-> PyBool(TRUE), input_key |-> PyStr(<<"client_name">>)]
R_period == [name |-> N_soc, description |-> D_any,
             requires_input |-> PyBool(TRUE), input_key |-> PyStr(W_audit_period)]
R_dates  == [name |-> N_dates, description |-> D_any,
             requires_input |-> PyBool(TRUE), input_key |-> PyStr(<<"issued">>)]
R_type   == [name |-> N_class, description |-> D_any,
             requires_input |-> PyBool(TRUE), input_key |-> PyStr(<<"kind">>)]
R_spec   == [name |-> N_soc, description |-> D_any,
             requires_input |-> PyBool(TRUE), input_key |-> PyStr(W_specificity)]
\* rules that break the data model
R_nokey  == [name |-> N_soc, description |-> D_any, requires_input |-> PyBool(TRUE)]
R_noname == [description |-> D_any]
R_nodesc == [name |-> N_soc]

AppRules == {R_plain, R_client, R_period, R_dates, R_type, R_spec,
             R_nokey, R_noname, R_nodesc}

\* rules.json: unreadable, or an object with a rules array
RulesFiles ==
    {[ok |-> FALSE, rules |-> <<>>]}
    \cup {[ok |-> TRUE, rules |-> rs] :
             rs \in UNION {[1..n -> AppRules] : n \in 0..MaxRules}}

F_docx == <<"r",".","D","o","c","x">>
F_pdf  == <<"r",".","p","d","f">>
F_none == <<"r">>

\* blank: the document has no paragraph with text, so that the text
\* extract_text_from_docx returns is ''
Requests ==
    [hasFile   : BOOLEAN,
     filename  : {<<>>, F_docx, F_pdf, F_none},
     extractOk : BOOLEAN,
     form      : {EmptyDict, [client_name |-> PyStr(<<"Acme">>)]},
     blank     : {FALSE}]
    \cup
    [hasFile   : {TRUE},
     filename  : {F_docx},
     extractOk : {TRUE},
     form      : {EmptyDict},
     blank     : {TRUE}]

\* the responses the service gives during an upload
UploadChats ==
    {ChatError("connection refused"),
     BareChat(MkObj(PyBool(TRUE), S_ok, Absent, Absent), <<>>, FALSE),
     BareChat(MkObj(PyStr(W_failed), S_ok, Absent, Absent), W_failed, FALSE),
     Chat("tagged", P_sure \o <<FENCE, TWord(W_json), NL>>
                    \o ObjText(MkObj(PyStr(W_partial), S_ok, PyList(<<S_loc>>), Absent))
                    \o <<NL, FENCE>>,
          MkObj(PyStr(W_partial), S_ok, PyList(<<S_loc>>), Absent), W_partial, FALSE),
     Chat("malformed",
          DropLast(ObjText(MkObj(PyBool(TRUE), S_ok, Absent, Absent))) \o <<COMMA, RBRACE>>,
          EmptyDict, <<>>, FALSE)}

----------------------------------------------------------------------------
(* Inputs: report texts and rules of the deterministic checkers *)

MaxTextLen  == 4
MaxKeywords == 2

TextChars == {"a", "B"}
Texts     == UNION {[1..n -> TextChars] : n \in 0..MaxTextLen}

Keywords     == {<<"A">>, <<"a","b">>, <<"b">>}
KeywordLists == UNION {[1..n -> Keywords] : n \in 0..MaxKeywords} \cup {<< <<>> >>}

Counts == -1..2

T_count == <<Lit("Found "), Hole("found_count"), Lit(" occurrence(s)")>>
T_both  == <<Lit("Found "), Hole("found_count"), Lit(": "), Hole("found_keywords")>>

\* a rule with the given keywords, required_count and explanation_template
WithKeywords(ks) == [keywords |-> ks]
WithCount(n)     == [required_count |-> n]
WithTemplate(t)  == [explanation_template |-> t]

CheckRules ==
    {k @@ c @@ t :
        k \in {EmptyDict} \cup {WithKeywords(ks) : ks \in KeywordLists},
        c \in {EmptyDict} \cup {WithCount(n) : n \in Counts},
        t \in {EmptyDict, WithTemplate(T_count), WithTemplate(T_both)}}

MaxMarkedLen == 3

\* texts with line breaks and heading marks
MarkedChars == {"a", "b", "#", "*", "\n"}
MarkedTexts == UNION {[1..n -> MarkedChars] : n \in 0..MaxMarkedLen}

T_plain == <<Lit("Section missing")>>
T_value == <<Lit("Found: "), Hole("found_value")>>

WithSection(name) == [section_name |-> name]
WithPattern(p)    == [search_pattern |-> p]

SectionNames == {<<>>, <<"A">>, <<"a","B">>}

HeaderRules ==
    {n @@ t :
        n \in {EmptyDict} \cup {WithSection(name) : name \in SectionNames},
        t \in {EmptyDict, WithTemplate(T_plain), WithTemplate(T_count)}}

\* the patterns '', 'a', 'ab', 'b.', 'b|ab', 'B|a.' and '(' (unbalanced)
Patterns ==
    {Pattern(<< <<>> >>),
     Pattern(<< <<Ch("a")>> >>),
     Pattern(<< <<Ch("a"), Ch("b")>> >>),
     Pattern(<< <<Ch("b"), Dot>> >>),
     Pattern(<< <<Ch("b")>>, <<Ch("a"), Ch("b")>> >>),
     Pattern(<< <<Ch("B")>>, <<Ch("a"), Dot>> >>),
     BadPattern}

PatternRules ==
    {p @@ t :
        p \in {EmptyDict} \cup {WithPattern(x) : x \in Patterns},
        t \in {EmptyDict, WithTemplate(T_value), WithTemplate(T_count)}}

MaxChecklist == 2

\* a rule of checklist_config.json
Entry(id, severity, check) ==
    [rule_id |-> id, rule_name |-> id, severity |-> severity] @@ check

OfType(t) == [check_type |-> t]

E_keyword  == Entry("K1", "critical",
                    OfType("keyword") @@ WithKeywords(<< <<"a">> >>) @@ WithTemplate(T_both))
E_negative == Entry("N1", "high",
                    OfType("negative_keyword") @@ WithKeywords(<< <<"b">> >>)
                        @@ WithTemplate(T_count))
E_header   == Entry("S1", "critical",
                    OfType("section_header") @@ WithSection(<<"A">>) @@ WithTemplate(T_plain))
E_exact    == Entry("X1", "medium",
                    OfType("exact_match") @@ WithPattern(Pattern(<< <<Ch("a"), Ch("b")>> >>))
                        @@ WithTemplate(T_value))
\* check types the deterministic layer does not know
E_llm      == Entry("G1", "critical", OfType("generative") @@ WithTemplate(T_plain))
E_section  == Entry("S2", "low", OfType("section") @@ WithSection(<<"A">>))
\* no check_type at all
E_untyped  == Entry("U1", "critical", WithKeywords(<< <<"a">> >>) @@ WithTemplate(T_count))
\* rules that break the data model
E_bare     == Entry("K2", "high", OfType("keyword") @@ WithKeywords(<< <<"a">> >>))
E_noname   == [rule_id |-> "G2", severity |-> "low"] @@ OfType("generative")
E_nosev    == [rule_id |-> "G3", rule_name |-> "G3"] @@ OfType("generative")

Entries == {E_keyword, E_negative, E_header, E_exact, E_llm, E_section, E_untyped,
            E_bare, E_noname, E_nosev}

Checklists == UNION {[1..n -> Entries] : n \in 0..MaxChecklist}

ReportRequests ==
    [hasFile  : BOOLEAN,
     filename : {<<>>, F_docx, F_pdf, F_none},
     readable : BOOLEAN,
     text     : {<<>>, <<"\n">>, <<"a">>, <<"#","A","\n","a","b">>, <<"b","b">>}]

\* calls of check_rule_with_llm: the rule, the document and the user inputs
KW3 == << <<"s","o","c">>, <<"a","u","d","i","t">>, <<"p","e","r","i","o","d">> >>

R_keyed  == R_plain @@ WithKeywords(KW3)
R_keyed1 == R_plain @@ WithKeywords(<< <<"t","y","p","e">> >>)

EvalRules == AppRules \cup {R_keyed, R_keyed1}

D_soc    == <<"S","O","C"," ","2"," ","T","y","p","e"," ","I","I">>
D_period == <<"a","u","d","i","t"," ","p","e","r","i","o","d",":"," ","s","o","c">>
D_other  == <<"n","/","a">>

EvalTexts == {D_soc, D_period, D_other, <<>>}

EvalChats == UploadChats \cup ChatErrors

\* rules of soc_checklist_rules.json
V_client == [id |-> "R1", name |-> "Client", importance |-> "high", type |-> "client_name"]
V_period == [id |-> "R2", name |-> "Period", importance |-> "high", type |-> "audit_period"]
V_other  == [id |-> "R3", name |-> "Format", importance |-> "low",  type |-> "format"]
V_untyped == [id |-> "R4", name |-> "Scope", importance |-> "low"]

ReviewRules == {V_client, V_period, V_other, V_untyped}

\* a response object of the service, as text
SatisfiedText(v) ==
    <<LBRACE, TStr(K_satisfied), COLON, WS>> \o Render(v) \o
    <<COMMA, WS, TStr(K_confidence), COLON, WS, TNUM, COMMA, NL,
      TStr(K_reasoning), COLON, WS, TStr(<<"all match">>), RBRACE>>

Posts ==
    {PostError("connection refused"), PostError("timed out"),
     PostReply(500, TRUE, FALSE, <<>>), PostReply(404, FALSE, FALSE, <<>>),
     PostReply(200, FALSE, FALSE, <<>>), PostReply(200, TRUE, FALSE, <<>>)}
    \cup {PostReply(200, TRUE, TRUE, t) :
            t \in {SatisfiedText(PyBool(TRUE)), SatisfiedText(PyBool(FALSE)),
                   P_sure \o SatisfiedText(PyBool(TRUE)) \o P_hope,
                   <<LBRACE, TStr(K_satisfied), COLON, WS, TTRUE, RBRACE>>,
                   DropLast(SatisfiedText(PyBool(TRUE))),
                   <<TWord(<<"I">>), WS, TWord(<<"cannot">>), WS, TWord(<<"tell">>)>>,
                   <<>>}}

EvalCalls ==
    [fn : {"app"}, rule : EvalRules, text : EvalTexts, hasContext : {TRUE},
     inputs : {EmptyDict, [client_name |-> PyStr(<<"Acme">>)]}]
    \cup
    [fn : {"review"}, rule : ReviewRules, text : EvalTexts, hasContext : BOOLEAN,
     inputs : {[client_name |-> PyStr(<<"Acme">>)]}]

\* document lengths around the two slices of src/app.py
MaxDocLen == 40000

DocLengths == {0, 1, 9999, 10000, 10001, 19999, 20000, 20001, MaxDocLen}

PromptCalls ==
    [fn : {"app"}, rule : EvalRules, hasContext : {TRUE}, length : DocLengths,
     inputs : {EmptyDict, [client_name |-> PyStr(<<"Acme">>)]}]
    \cup
    [fn : {"review"}, rule : ReviewRules, hasContext : BOOLEAN, length : DocLengths,
     inputs : {[client_name |-> PyStr(<<"Acme">>)]}]

\* rules of checklist.json and files of the command-line validator
VEntry(id, severity, check) ==
    [rule_id |-> id, rule_name |-> id, severity |-> severity,
     explanation |-> <<"Requirement not met">>] @@ check

WithMin(n) == [min_occurrences |-> n]

N_keyword  == VEntry("K1", "critical", OfType("keyword") @@ WithKeywords(<< <<"a">> >>))
N_twice    == VEntry("K2", "high",
                     OfType("keyword") @@ WithKeywords(<< <<"b">> >>) @@ WithMin(2))
N_section  == VEntry("S1", "critical", OfType("section") @@ WithSection(<<"A">>))
N_exact    == VEntry("X1", "medium",
                     OfType("exact_match")
                        @@ [pattern |-> Pattern(<< <<Ch("a"), Ch("b")>> >>)])
\* a check type validate does not know
N_negative == VEntry("N1", "low", OfType("negative_keyword") @@ WithKeywords(<< <<"b">> >>))
\* rules that break the data model
N_silent   == [rule_id |-> "K3", rule_name |-> "K3", severity |-> "high"]
                 @@ OfType("keyword") @@ WithKeywords(<< <<"a">> >>)
N_untyped  == VEntry("U1", "low", WithKeywords(<< <<"a">> >>))

VEntries == {N_keyword, N_twice, N_section, N_exact, N_negative, N_silent, N_untyped}

VChecklists == UNION {[1..n -> VEntries] : n \in 0..MaxChecklist}

VFiles ==
    {[ext |-> "docx", readable |-> TRUE, text |-> t] :
        t \in {<<>>, <<"a">>, <<" ","A","\n","b","b">>}}
    \cup {[ext |-> "docx", readable |-> FALSE, text |-> <<>>],
          [ext |-> "pdf",  readable |-> FALSE, text |-> <<>>],
          [ext |-> "txt",  readable |-> TRUE,  text |-> <<"a">>]}

\* rule sets, requests and service responses of src/backend/app.py
V_noimp == [id |-> "R5", name |-> "Layout", type |-> "format"]

ApiRuleSets ==
    UNION {[1..n -> ReviewRules \cup {V_noimp}] : n \in 0..MaxChecklist}

F_txt == <<"r",".","t","x","t">>

S_acme == <<"A","c","m","e">>
S_day  == <<"2","0","2","5">>

ApiRequests ==
    [endpoint : {"review"}, hasFile : {FALSE}, filename : {<<>>}, readable : {TRUE},
     client_name : {<<>>}, audit_start : {<<>>}, audit_end : {<<>>},
     text : {<<>>, <<" ", "\n">>, D_soc}]
    \cup
    [endpoint : {"upload"}, hasFile : {TRUE}, filename : {F_docx, F_txt},
     readable : BOOLEAN, client_name : {S_acme}, audit_start : {S_day},
     audit_end : {S_day}, text : {<<>>, <<" ", "\n">>, D_soc}]
    \cup
    {[endpoint |-> "upload", hasFile |-> h, filename |-> f, readable |-> TRUE,
      client_name |-> c, audit_start |-> S_day, audit_end |-> e, text |-> D_soc] :
        h \in BOOLEAN, f \in {<<>>, F_pdf, F_docx}, c \in {<<" ">>, S_acme},
        e \in {<<>>, S_day}}

W_false   == <<"f","a","l","s","e">>
W_unknown == <<"u","n","k","n","o","w","n">>

SatisfiedValues ==
    {PyBool(TRUE), PyBool(FALSE), PyStr(W_false), PyStr(W_unknown), PyNum(1), PyNone}

\* a response object without 'satisfied'
ReasonOnlyText ==
    <<LBRACE, TStr(K_reasoning), COLON, WS, TStr(<<"all match">>), RBRACE>>

ApiPosts ==
    {PostError("connection refused"), PostReply(500, TRUE, FALSE, <<>>)}
    \cup {PostReply(200, TRUE, TRUE, t) :
            t \in {SatisfiedText(v) : v \in SatisfiedValues} \cup {ReasonOnlyText}}

----------------------------------------------------------------------------
(* Specifications *)

NoRequest == [hasFile |-> FALSE, filename |-> <<>>, extractOk |-> FALSE,
              form |-> EmptyDict, blank |-> FALSE]
NoOut     == [op |-> "none", raised |-> FALSE, passed |-> PyNone, found_count |-> 0,
              found_keywords |-> <<>>, found_value |-> <<>>, explanation |-> <<>>]

UploadIdle ==
    /\ request = NoRequest /\ userInputs = EmptyDict /\ idx = 0
    /\ results = <<>> /\ fileOnDisk = FALSE /\ response = NoResponse

NormIdle == raw = ChatError("") /\ verdict = NoVerdict

CheckIdle == ckText = <<>> /\ ckRule = EmptyDict /\ ckOut = NoOut

NoReportRequest == [hasFile |-> FALSE, filename |-> <<>>, readable |-> FALSE,
                    text |-> <<>>]

ReportIdle ==
    /\ checklist = <<>> /\ rpRequest = NoReportRequest
    /\ rpFile = FALSE /\ rpResponse = NoReportResponse

NoCall == [fn |-> "none", rule |-> EmptyDict, text |-> <<>>, hasContext |-> FALSE,
           inputs |-> EmptyDict]

EvalIdle == evCall = NoCall

NoPrompt == [fn |-> "none", rule |-> EmptyDict, inputs |-> EmptyDict,
             hasContext |-> FALSE, length |-> 0]

PromptIdle == pmCall = NoPrompt /\ pmSent = <<>>

NoFile == [ext |-> "", readable |-> FALSE, text |-> <<>>]

ValidatorIdle ==
    /\ vdChecklist = <<>> /\ vdResults = <<>> /\ vdFile = NoFile
    /\ vdReturn = NoReturn /\ vdRuns = 0

NoApiRequest ==
    [endpoint |-> "none", hasFile |-> FALSE, filename |-> <<>>, readable |-> FALSE,
     client_name |-> <<>>, audit_start |-> <<>>, audit_end |-> <<>>, text |-> <<>>]

ApiIdle ==
    /\ apiRules = <<>> /\ apiRequest = NoApiRequest /\ apiContext = FALSE
    /\ apiIdx = 0 /\ apiResults = <<>> /\ apiFile = FALSE
    /\ apiResponse = NoApiResponse

\* one upload request served by upload_file
Init ==
    /\ pc = "idle"
    /\ rulesFile \in RulesFiles
    /\ UploadIdle /\ NormIdle /\ CheckIdle /\ ReportIdle /\ EvalIdle /\ PromptIdle /\ ValidatorIdle /\ ApiIdle
    /\ llmCalls = 0

Next ==
    \/ \E req \in Requests :
          \/ UploadNoFile(req)
          \/ UploadNoName(req)
          \/ UploadBadType(req)
          \/ UploadFails(req)
          \/ UploadStart(req)
    \/ \E chat \in UploadChats :
          \/ CheckRuleOk(chat)
          \/ CheckRuleRaises(chat)
    \/ UploadFinish

Spec == Init /\ [][Next]_vars

\* the try block of check_rule_with_llm applied to one outcome of ollama.chat
Normalize ==
    /\ pc = "norm_start"
    /\ verdict' = TryBlock(raw)
    /\ pc' = "norm_done"
    /\ UNCHANGED <<request, rulesFile, userInputs, idx, results, fileOnDisk,
                   response, raw, ckText, ckRule, ckOut,
                   reportVars, evalVars, promptVars, validatorVars, apiVars, llmCalls>>

InitNorm ==
    /\ pc = "norm_start"
    /\ raw \in NormChats
    /\ verdict = NoVerdict
    /\ rulesFile = [ok |-> FALSE, rules |-> <<>>]
    /\ UploadIdle /\ CheckIdle /\ ReportIdle /\ EvalIdle /\ PromptIdle /\ ValidatorIdle /\ ApiIdle
    /\ llmCalls = 0

NextNorm == Normalize

SpecNorm == InitNorm /\ [][NextNorm]_vars

\* one call of a checker of ChecklistValidator on a text and a rule
RunValidateKeyword ==
    /\ pc = "check_start"
    /\ ckOut' = ValidateKeyword(ckText, ckRule)
    /\ pc' = "check_done"
    /\ UNCHANGED <<request, rulesFile, userInputs, idx, results, fileOnDisk,
                   response, raw, verdict, ckText, ckRule,
                   reportVars, evalVars, promptVars, validatorVars, apiVars, llmCalls>>

RunValidateNegativeKeyword ==
    /\ pc = "check_start"
    /\ ckOut' = ValidateNegativeKeyword(ckText, ckRule)
    /\ pc' = "check_done"
    /\ UNCHANGED <<request, rulesFile, userInputs, idx, results, fileOnDisk,
                   response, raw, verdict, ckText, ckRule,
                   reportVars, evalVars, promptVars, validatorVars, apiVars, llmCalls>>

RunValidateSectionHeader ==
    /\ pc = "check_start"
    /\ ckOut' = ValidateSectionHeader(ckText, ckRule)
    /\ pc' = "check_done"
    /\ UNCHANGED <<request, rulesFile, userInputs, idx, results, fileOnDisk,
                   response, raw, verdict, ckText, ckRule,
                   reportVars, evalVars, promptVars, validatorVars, apiVars, llmCalls>>

RunValidateExactMatch ==
    /\ pc = "check_start"
    /\ ckOut' = ValidateExactMatch(ckText, ckRule)
    /\ pc' = "check_done"
    /\ UNCHANGED <<request, rulesFile, userInputs, idx, results, fileOnDisk,
                   response, raw, verdict, ckText, ckRule,
                   reportVars, evalVars, promptVars, validatorVars, apiVars, llmCalls>>

\* the rule as src/validator.py reads it: the threshold that src/backend.py
\* reads under 'required_count' is read under 'min_occurrences'
AsValidatorRule(rule) ==
    [k \in (DOMAIN rule \ {"required_count"}) \cup
           (IF "required_count" \in DOMAIN rule THEN {"min_occurrences"} ELSE {}) |->
        IF k = "min_occurrences" THEN rule["required_count"] ELSE rule[k]]

\* ReportValidator.check_keyword applied to the same text, keywords and threshold
RunCheckKeyword ==
    /\ pc = "check_start"
    /\ ckOut' = [NoOut EXCEPT !.op = "check_keyword",
                              !.passed = PyBool(CheckKeyword(ckText, AsValidatorRule(ckRule)))]
    /\ pc' = "check_done"
    /\ UNCHANGED <<request, rulesFile, userInputs, idx, results, fileOnDisk,
                   response, raw, verdict, ckText, ckRule,
                   reportVars, evalVars, promptVars, validatorVars, apiVars, llmCalls>>

InitCheck ==
    /\ pc = "check_start"
    /\ \/ ckText \in Texts /\ ckRule \in CheckRules
       \/ ckText \in MarkedTexts /\ ckRule \in HeaderRules
       \/ ckText \in Texts \cup MarkedTexts /\ ckRule \in PatternRules
    /\ ckOut = NoOut
    /\ rulesFile = [ok |-> FALSE, rules |-> <<>>]
    /\ UploadIdle /\ NormIdle /\ ReportIdle /\ EvalIdle /\ PromptIdle /\ ValidatorIdle /\ ApiIdle
    /\ llmCalls = 0

NextCheck ==
    \/ RunValidateKeyword
    \/ RunValidateNegativeKeyword
    \/ RunValidateSectionHeader
    \/ RunValidateExactMatch
    \/ RunCheckKeyword

SpecCheck == InitCheck /\ [][NextCheck]_vars

\* one upload request served by upload_report of src/backend.py
InitReport ==
    /\ pc = "rp_idle"
    /\ checklist \in Checklists
    /\ rpRequest = NoReportRequest /\ rpFile = FALSE /\ rpResponse = NoReportResponse
    /\ rulesFile = [ok |-> FALSE, rules |-> <<>>]
    /\ UploadIdle /\ NormIdle /\ CheckIdle /\ EvalIdle /\ PromptIdle /\ ValidatorIdle /\ ApiIdle
    /\ llmCalls = 0

NextReport ==
    \E req \in ReportRequests :
        \/ ReportReject(req)
        \/ ReportExtractFails(req)
        \/ ReportNoText(req)
        \/ ReportRuleFails(req)
        \/ ReportDone(req)

SpecReport == InitReport /\ [][NextReport]_vars

\* one evaluation of one rule against one document: a call of
\* check_rule_with_llm of src/app.py, or of src/backend/app.py

\* an exception leaves the call before any request is sent
EvalRaises ==
    /\ pc = "eval_start"
    /\ \/ evCall.fn = "app" /\ BuildPrompt(evCall.rule, evCall.inputs).raised
       \/ evCall.fn = "review"
             /\ RouteRule(evCall.rule, evCall.hasContext, PostError("")).raised
    /\ pc' = "eval_raised"
    /\ UNCHANGED <<request, rulesFile, userInputs, idx, results, fileOnDisk,
                   response, raw, verdict, ckText, ckRule, ckOut,
                   reportVars, evalVars, promptVars, validatorVars, apiVars, llmCalls>>

\* src/app.py: the prompt is built and ollama.chat gives its outcome
EvalChat(chat) ==
    /\ pc = "eval_start"
    /\ evCall.fn = "app" /\ ~BuildPrompt(evCall.rule, evCall.inputs).raised
    /\ raw' = chat
    /\ llmCalls' = llmCalls + CheckRuleWithLlm(evCall.rule, evCall.inputs, chat).calls
    /\ pc' = "eval_called"
    /\ UNCHANGED <<request, rulesFile, userInputs, idx, results, fileOnDisk,
                   response, verdict, ckText, ckRule, ckOut,
                   reportVars, evalVars, promptVars, validatorVars, apiVars>>

\* src/app.py: the rest of the try block and its handlers, to the return
EvalReturn ==
    /\ pc = "eval_called"
    /\ verdict' = CheckRuleWithLlm(evCall.rule, evCall.inputs, raw).res
    /\ pc' = "eval_done"
    /\ UNCHANGED <<request, rulesFile, userInputs, idx, results, fileOnDisk,
                   response, raw, ckText, ckRule, ckOut,
                   reportVars, evalVars, promptVars, validatorVars, apiVars, llmCalls>>

\* src/backend/app.py: the rule is routed, requests.post gives its outcome
\* (when the rule's checker sends a request) and the checker returns
EvalReview(post) ==
    /\ pc = "eval_start"
    /\ evCall.fn = "review"
    /\ LET r == RouteRule(evCall.rule, evCall.hasContext, post)
       IN  /\ ~r.raised
           /\ verdict' = r.res
           /\ llmCalls' = llmCalls + r.calls
    /\ raw' = post
    /\ pc' = "eval_done"
    /\ UNCHANGED <<request, rulesFile, userInputs, idx, results, fileOnDisk,
                   response, ckText, ckRule, ckOut,
                   reportVars, evalVars, promptVars, validatorVars, apiVars>>

\* src/app.py: ollama.chat is called and the service never answers; the call
\* of line 213 passes no timeout, so nothing ends the wait
EvalChatWaits ==
    /\ pc = "eval_start"
    /\ evCall.fn = "app" /\ ~BuildPrompt(evCall.rule, evCall.inputs).raised
    /\ llmCalls' = llmCalls + 1
    /\ pc' = "eval_waiting"
    /\ UNCHANGED <<request, rulesFile, userInputs, idx, results, fileOnDisk,
                   response, raw, verdict, ckText, ckRule, ckOut,
                   reportVars, evalVars, promptVars, validatorVars, apiVars>>

\* src/backend/app.py: requests.post is called and the service never answers
EvalPostWaits ==
    /\ pc = "eval_start"
    /\ evCall.fn = "review"
    /\ LET r == RouteRule(evCall.rule, evCall.hasContext, PostError(""))
       IN  ~r.raised /\ r.calls > 0
    /\ llmCalls' = llmCalls + 1
    /\ pc' = "eval_waiting"
    /\ UNCHANGED <<request, rulesFile, userInputs, idx, results, fileOnDisk,
                   response, raw, verdict, ckText, ckRule, ckOut,
                   reportVars, evalVars, promptVars, validatorVars, apiVars>>

\* src/backend/app.py: timeout=30 ends the wait of requests.post with an
\* exception, which the checker's handler turns into its result
EvalPostTimeout ==
    /\ pc = "eval_waiting"
    /\ evCall.fn = "review"
    /\ raw' = PostError("timed out")
    /\ verdict' = RouteRule(evCall.rule, evCall.hasContext, PostError("timed out")).res
    /\ pc' = "eval_done"
    /\ UNCHANGED <<request, rulesFile, userInputs, idx, results, fileOnDisk,
                   response, ckText, ckRule, ckOut,
                   reportVars, evalVars, promptVars, validatorVars, apiVars, llmCalls>>

InitEval ==
    /\ pc = "eval_start"
    /\ evCall \in EvalCalls
    /\ rulesFile = [ok |-> FALSE, rules |-> <<>>]
    /\ UploadIdle /\ CheckIdle /\ ReportIdle /\ PromptIdle /\ ValidatorIdle /\ ApiIdle
    /\ raw = ChatError("")
    \* nothing returned yet: a result of src/backend/app.py is a dict of the
    \* service's own keys
    /\ verdict = IF evCall.fn = "review" THEN EmptyDict ELSE NoVerdict
    /\ llmCalls = 0

NextEval ==
    \/ EvalRaises
    \/ \E chat \in EvalChats : EvalChat(chat)
    \/ EvalReturn
    \/ \E post \in Posts : EvalReview(post)
    \/ EvalChatWaits
    \/ EvalPostWaits
    \/ EvalPostTimeout

SpecEval == InitEval /\ [][NextEval]_vars

\* the step EvalReturn, by its change of pc
Returning == pc = "eval_called" /\ pc' = "eval_done"

\* the interpreter runs a call to its end once the service has answered, and
\* a timeout that is set fires; nothing makes the service answer
SpecEvalLive == SpecEval /\ WF_pc(Returning) /\ WF_pc(EvalPostTimeout)

\* the prompt of one rule evaluation, built and sent

\* an exception leaves the call before the prompt is sent
PromptRaises ==
    /\ pc = "prompt_start"
    /\ \/ pmCall.fn = "app" /\ BuildPrompt(pmCall.rule, pmCall.inputs).raised
       \/ pmCall.fn = "review"
             /\ RouteRule(pmCall.rule, pmCall.hasContext, PostError("")).raised
    /\ pc' = "prompt_raised"
    /\ UNCHANGED <<request, rulesFile, userInputs, idx, results, fileOnDisk,
                   response, raw, verdict, ckText, ckRule, ckOut,
                   reportVars, evalVars, promptVars, validatorVars, apiVars, llmCalls>>

\* src/app.py: the prompt of the rule's kind goes to ollama.chat
PromptApp ==
    /\ pc = "prompt_start"
    /\ pmCall.fn = "app" /\ ~BuildPrompt(pmCall.rule, pmCall.inputs).raised
    /\ pmSent' = Append(pmSent,
                    PromptExcerpt(BuildPrompt(pmCall.rule, pmCall.inputs).kind,
                                  pmCall.length))
    /\ llmCalls' = llmCalls + 1
    /\ pc' = "prompt_sent"
    /\ UNCHANGED <<request, rulesFile, userInputs, idx, results, fileOnDisk,
                   response, raw, verdict, ckText, ckRule, ckOut,
                   reportVars, evalVars, pmCall, validatorVars, apiVars>>

\* src/backend/app.py: check_client_name_rule or check_audit_period_rule posts
\* its prompt
PromptReview ==
    /\ pc = "prompt_start"
    /\ pmCall.fn = "review"
    /\ LET r == RouteRule(pmCall.rule, pmCall.hasContext, PostError(""))
       IN  ~r.raised /\ r.calls > 0
    /\ pmSent' = Append(pmSent, ReportExcerpt(pmCall.length))
    /\ llmCalls' = llmCalls + 1
    /\ pc' = "prompt_sent"
    /\ UNCHANGED <<request, rulesFile, userInputs, idx, results, fileOnDisk,
                   response, raw, verdict, ckText, ckRule, ckOut,
                   reportVars, evalVars, pmCall, validatorVars, apiVars>>

\* src/backend/app.py: a rule of another type sends nothing
PromptNone ==
    /\ pc = "prompt_start"
    /\ pmCall.fn = "review"
    /\ LET r == RouteRule(pmCall.rule, pmCall.hasContext, PostError(""))
       IN  ~r.raised /\ r.calls = 0
    /\ pc' = "prompt_none"
    /\ UNCHANGED <<request, rulesFile, userInputs, idx, results, fileOnDisk,
                   response, raw, verdict, ckText, ckRule, ckOut,
                   reportVars, evalVars, promptVars, validatorVars, apiVars, llmCalls>>

InitPrompt ==
    /\ pc = "prompt_start"
    /\ pmCall \in PromptCalls
    /\ pmSent = <<>>
    /\ rulesFile = [ok |-> FALSE, rules |-> <<>>]
    /\ UploadIdle /\ NormIdle /\ CheckIdle /\ ReportIdle /\ EvalIdle
    /\ ValidatorIdle /\ ApiIdle
    /\ llmCalls = 0

NextPrompt == PromptRaises \/ PromptApp \/ PromptReview \/ PromptNone

SpecPrompt == InitPrompt /\ [][NextPrompt]_vars

\* one ReportValidator and the validate() calls made on it
InitValidator ==
    /\ pc = "vd_ready"
    /\ vdChecklist \in VChecklists
    /\ vdResults = <<>> /\ vdFile = NoFile /\ vdReturn = NoReturn /\ vdRuns = 0
    /\ rulesFile = [ok |-> FALSE, rules |-> <<>>]
    /\ UploadIdle /\ NormIdle /\ CheckIdle /\ ReportIdle /\ EvalIdle /\ PromptIdle
    /\ ApiIdle
    /\ llmCalls = 0

NextValidator ==
    \E file \in VFiles :
        \/ ValidateNoText(file)
        \/ ValidateRaises(file)
        \/ ValidateReturns(file)

SpecValidator == InitValidator /\ [][NextValidator]_vars

\* one request served by review_report or upload_report of src/backend/app.py
InitApi ==
    /\ pc = "api_idle"
    /\ apiRules \in ApiRuleSets
    /\ apiRequest = NoApiRequest /\ apiContext = FALSE /\ apiIdx = 0
    /\ apiResults = <<>> /\ apiFile = FALSE /\ apiResponse = NoApiResponse
    /\ rulesFile = [ok |-> FALSE, rules |-> <<>>]
    /\ UploadIdle /\ NormIdle /\ CheckIdle /\ ReportIdle /\ EvalIdle /\ PromptIdle
    /\ ValidatorIdle
    /\ llmCalls = 0

NextApi ==
    \/ \E req \in ApiRequests :
          \/ ApiReviewReject(req)
          \/ ApiReviewStart(req)
          \/ ApiUploadReject(req)
          \/ ApiUploadExtractFails(req)
          \/ ApiUploadNoText(req)
          \/ ApiUploadStart(req)
    \/ \E post \in ApiPosts :
          \/ ApiCheckRule(post)
          \/ ApiRuleRaises(post)
    \/ ApiFinish

SpecApi == InitApi /\ [][NextApi]_vars

----------------------------------------------------------------------------
(* Claims *)

StatusValues == {PyStr(W_passed), PyStr(W_partial), PyStr(W_failed)}

\* C1: the summary returned by upload_file satisfies
\* total = passed + partial + failed, whatever the per-rule outcomes were.
C1_TotalIsSum ==
    (pc = "done" /\ response.status = 200) =>
        response.summary.total =
            response.summary.passed + response.summary.partial + response.summary.failed

\* C2: every result check_rule_with_llm returns, on every path, carries in
\* 'passed' one of exactly the three values passed, partial, failed.
C2_StatusIsTriState ==
    pc = "norm_done" => verdict.passed \in StatusValues

\* C3: an accepted upload whose text was extracted and whose rules were
\* loaded ends with a normal response holding one result per rule: no
\* exception raised for a single rule aborts the batch.
C3_OneVerdictPerRule ==
    (pc = "done" /\ Accepted(request) /\ request.extractOk /\ rulesFile.ok) =>
        /\ response.status = 200
        /\ Len(response.results) = Len(rulesFile.rules)

\* C4: a response text that holds no JSON object (malformed, truncated, no
\* braces) gives a result with status 'failed' and a non-empty reason.
C4_UnparseableIsFailed ==
    (pc = "norm_done" /\ raw.shape = "malformed") =>
        /\ verdict.passed = PyStr(W_failed)
        /\ verdict.reason.t = "str" /\ verdict.reason.s # <<>>

\* the passed field of the object the response was built from
GivenPassed == DictGet(raw.obj, K_passed, Absent)

\* C5: true gives passed, false gives failed, a string spelling passed,
\* partial or failed in any case and with blanks around it gives that status,
\* a missing field or a value that is neither boolean nor string gives failed.
C5_Canonicalization ==
    (pc = "norm_done" /\ raw.shape = "bare") =>
        /\ GivenPassed = PyBool(TRUE)  => verdict.passed = PyStr(W_passed)
        /\ GivenPassed = PyBool(FALSE) => verdict.passed = PyStr(W_failed)
        /\ (GivenPassed.t = "str" /\ raw.pbase \in StatusWords)
               => verdict.passed = PyStr(raw.pbase)
        /\ GivenPassed.t \notin {"bool", "str"} => verdict.passed = PyStr(W_failed)

\* C5 witness: the string ' Partial ' was normalized to partial
C5_Witness ==
    /\ pc = "norm_done" /\ raw.shape = "bare"
    /\ GivenPassed = PyStr(<<" ">> \o Capitalize(W_partial) \o <<" ">>)
    /\ verdict.passed = PyStr(W_partial)

\* C6 as stated: every string that is not passed, partial or failed after
\* trimming and lower-casing gives the status failed.
C6_OtherStringsFail ==
    (pc = "norm_done" /\ raw.shape = "bare"
        /\ GivenPassed.t = "str" /\ raw.pbase \notin StatusWords) =>
        verdict.passed = PyStr(W_failed)

\* C6 as amended: such a string gives passed when, lower-cased and not
\* trimmed, it is 'true' or 'yes', and failed otherwise.
C6_OtherStrings ==
    (pc = "norm_done" /\ raw.shape = "bare"
        /\ GivenPassed.t = "str" /\ raw.pbase \notin StatusWords) =>
        verdict.passed = PyStr(IF raw.pbase \in {W_true, W_yes} /\ ~raw.ppad
                               THEN W_passed ELSE W_failed)

\* C6 witness: the string 'YES' was normalized to passed
C6_Witness ==
    /\ pc = "norm_done" /\ raw.shape = "bare"
    /\ GivenPassed = PyStr(Upper(W_yes))
    /\ verdict.passed = PyStr(W_passed)

\* C7: an object in a fenced block, tagged json or untagged, with any prose
\* before and after it, comes back with its passed (canonicalized), reason
\* and locations unchanged.
C7_FencedRoundTrip ==
    (pc = "norm_done" /\ raw.shape \in {"tagged", "untagged"}) =>
        /\ verdict.passed = (IF GivenPassed = PyBool(TRUE) THEN PyStr(W_passed)
                             ELSE GivenPassed)
        /\ verdict.reason = raw.obj[K_reason]
        /\ verdict.locations = raw.obj[K_locations]

\* keyword occurs at position i of text, case-insensitively
MatchAt(keyword, text, i) ==
    /\ i + Len(keyword) - 1 <= Len(text)
    /\ Lower(SubSeq(text, i, i + Len(keyword) - 1)) = Lower(keyword)

MatchPositions(keyword, text) == {i \in 1..(Len(text) + 1) : MatchAt(keyword, text, i)}

\* the number of distinct keywords that occur at least once
DistinctFound(keywords, text) ==
    Cardinality({k \in {keywords[i] : i \in 1..Len(keywords)} :
                    MatchPositions(k, text) # {}})

\* C8: validate_keyword passes iff the number of distinct keywords that occur
\* in the text is at least required_count, a keyword listed twice counting
\* once.
C8_DistinctKeywords ==
    (pc = "check_done" /\ ckOut.op = "keyword" /\ ~ckOut.raised) =>
        ckOut.passed = PyBool(DistinctFound(DictGet(ckRule, "keywords", <<>>), ckText)
                                  >= DictGet(ckRule, "required_count", 1))

\* C9: a keyword rule with an empty or absent keywords list never passes,
\* whatever required_count is.
C9_EmptyNeverPasses ==
    (pc = "check_done" /\ ckOut.op = "keyword" /\ ~ckOut.raised
        /\ DictGet(ckRule, "keywords", <<>>) = <<>>) =>
        ckOut.passed = PyBool(FALSE)

\* the occurrences of a keyword: the most matches that do not overlap
Occurrences(keyword, text) ==
    LET apart(P) == \A i, j \in P : i < j => i + Len(keyword) <= j
        sizes    == {Cardinality(P) : P \in {Q \in SUBSET MatchPositions(keyword, text) : apart(Q)}}
    IN  CHOOSE n \in sizes : \A m \in sizes : m <= n

TotalOccurrences(keywords, text) ==
    SumSeq([i \in 1..Len(keywords) |-> Occurrences(keywords[i], text)])

\* the template names no placeholder but found_count
CountTemplate(rule) ==
    /\ "explanation_template" \in DOMAIN rule
    /\ \A i \in 1..Len(rule["explanation_template"]) :
          rule["explanation_template"][i].ph
              => rule["explanation_template"][i].x = "found_count"

\* C10: validate_negative_keyword, on a rule whose template it can fill,
\* returns passed = true iff the total number of case-insensitive occurrences
\* of the rule's keywords is <= required_count, 0 when the rule sets none.
C10_NegativeKeyword ==
    (pc = "check_done" /\ ckOut.op = "negative_keyword" /\ CountTemplate(ckRule)) =>
        /\ ~ckOut.raised
        /\ ckOut.passed =
              PyBool(TotalOccurrences(DictGet(ckRule, "keywords", <<>>), ckText)
                         <= DictGet(ckRule, "required_count", 0))

\* C10 witness: two occurrences against a limit of two passed
C10_Witness ==
    /\ pc = "check_done" /\ ckOut.op = "negative_keyword" /\ ~ckOut.raised
    /\ DictGet(ckRule, "required_count", 0) = 2
    /\ ckOut.found_count = 2
    /\ ckOut.passed = PyBool(TRUE)

\* the section name occurs at position i of the text, at the start of a line
\* or right after one of the marks
HeadedAt(name, text, i, marks) ==
    /\ MatchAt(name, text, i)
    /\ \/ i = 1
       \/ text[i - 1] = "\n"
       \/ text[i - 1] \in marks

\* the section name occurs at position i between two '*'
BoldAt(name, text, i) ==
    /\ MatchAt(name, text, i)
    /\ i > 1 /\ text[i - 1] = "*"
    /\ i + Len(name) <= Len(text) /\ text[i + Len(name)] = "*"

\* C11 as stated: validate_section_header passes iff, case-insensitively, the
\* section name occurs at the start of a line, or right after a '#', or right
\* after a '*'.
C11_SectionHeader ==
    (pc = "check_done" /\ ckOut.op = "section_header" /\ ~ckOut.raised) =>
        ckOut.passed =
            PyBool(\E i \in 1..(Len(ckText) + 1) :
                      HeadedAt(DictGet(ckRule, "section_name", <<>>), ckText, i, {"#", "*"}))

\* C11 as amended: validate_section_header passes iff, case-insensitively, the
\* section name occurs at the start of a line, or right after a '#', or
\* enclosed between a '*' right before it and a '*' right after it.
C11_SectionHeaderBold ==
    (pc = "check_done" /\ ckOut.op = "section_header" /\ ~ckOut.raised) =>
        ckOut.passed =
            PyBool(\E i \in 1..(Len(ckText) + 1) :
                      \/ HeadedAt(DictGet(ckRule, "section_name", <<>>), ckText, i, {"#"})
                      \/ BoldAt(DictGet(ckRule, "section_name", <<>>), ckText, i))

\* C11 witness: the header A was found in the text '*a*'
C11_Witness ==
    /\ pc = "check_done" /\ ckOut.op = "section_header" /\ ~ckOut.raised
    /\ ckText = <<"*", "a", "*">>
    /\ DictGet(ckRule, "section_name", <<>>) = <<"A">>
    /\ ckOut.passed = PyBool(TRUE)

\* the pattern of an exact_match rule, the empty one when the rule has none
PatternOf(rule) == DictGet(rule, "search_pattern", Pattern(<< <<>> >>))

\* the string sub is matched by the alternative alt, case-insensitively
Fits(alt, sub) ==
    /\ Len(sub) = Len(alt)
    /\ \A j \in 1..Len(alt) :
          IF alt[j].any THEN sub[j] # "\n"
          ELSE Lower(<<sub[j]>>) = Lower(<<alt[j].c>>)

\* the substrings of the text the pattern matches
MatchedSubstrings(pattern, text) ==
    {sub \in {SubSeq(text, i, j) : i \in 1..(Len(text) + 1), j \in 0..Len(text)} :
        \E a \in 1..Len(pattern.alts) : Fits(pattern.alts[a], sub)}

\* the template names no placeholder but found_value
ValueTemplate(rule) ==
    /\ "explanation_template" \in DOMAIN rule
    /\ \A i \in 1..Len(rule["explanation_template"]) :
          rule["explanation_template"][i].ph
              => rule["explanation_template"][i].x = "found_value"

\* the template with found_value replaced by value
Filled(template, value) ==
    Join([i \in 1..Len(template) |->
             IF template[i].ph THEN value ELSE <<template[i].x>>], <<>>)

\* C12: validate_exact_match, on a rule whose pattern compiles and whose
\* template it can fill, returns passed = true iff the pattern matches
\* somewhere in the text case-insensitively, and the explanation is the
\* template with found_value replaced by a matched substring when there is a
\* match and by 'Not found' when there is none.
C12_ExactMatch ==
    (pc = "check_done" /\ ckOut.op = "exact_match"
        /\ PatternOf(ckRule).ok /\ ValueTemplate(ckRule)) =>
        /\ ~ckOut.raised
        /\ ckOut.passed = PyBool(MatchedSubstrings(PatternOf(ckRule), ckText) # {})
        /\ IF MatchedSubstrings(PatternOf(ckRule), ckText) = {}
           THEN ckOut.explanation = Filled(ckRule["explanation_template"], <<"Not found">>)
           ELSE \E sub \in MatchedSubstrings(PatternOf(ckRule), ckText) :
                   ckOut.explanation = Filled(ckRule["explanation_template"], sub)

\* C12 witness: the pattern 'ab' matched 'aB' and the explanation quotes it
C12_Witness ==
    /\ pc = "check_done" /\ ckOut.op = "exact_match" /\ ~ckOut.raised
    /\ PatternOf(ckRule) = Pattern(<< <<Ch("a"), Ch("b")>> >>)
    /\ ckOut.passed = PyBool(TRUE)
    /\ ckOut.explanation = <<"Found: ", "a", "B">>

\* a rule parameter the checker op cannot use: no template, a template
\* naming a placeholder the checker does not fill, no pattern, an empty or
\* an invalid one
MalformedFor(op, rule) ==
    \/ "explanation_template" \notin DOMAIN rule
    \/ \E i \in 1..Len(rule["explanation_template"]) :
          /\ rule["explanation_template"][i].ph
          /\ op # "section_header"
          /\ rule["explanation_template"][i].x \notin
                (CASE op = "keyword"          -> {"found_count", "found_keywords"}
                   [] op = "negative_keyword" -> {"found_count"}
                   [] OTHER                   -> {"found_value"})
    \/ op = "exact_match"
          /\ (~PatternOf(rule).ok \/ PatternOf(rule) = Pattern(<< <<>> >>))

\* C13: the four checkers never raise, and a malformed rule parameter gives
\* passed = false with a non-empty explanation.
C13_CheckersTotal ==
    pc = "check_done" =>
        /\ ~ckOut.raised
        /\ MalformedFor(ckOut.op, ckRule) =>
              ckOut.passed = PyBool(FALSE) /\ ckOut.explanation # <<>>

SupportedTypes == {"exact_match", "keyword", "section_header", "negative_keyword"}

\* the rule's check_type is none of the supported ones, or the rule has none
Unsupported(rule) ==
    "check_type" \notin DOMAIN rule \/ rule["check_type"] \notin SupportedTypes

\* C14: in the results validate_all_rules returns, every rule whose
\* check_type is not a supported one, a rule with no check_type included, has
\* a result with passed = false and explanation 'Unknown check type'; it is
\* neither skipped nor evaluated as another type.
C14_UnknownCheckType ==
    (pc = "rp_done" /\ rpResponse.status = 200) =>
        \A i \in 1..Len(checklist) :
            Unsupported(checklist[i]) =>
                /\ Len(rpResponse.results) >= i
                /\ rpResponse.results[i].rule_id = checklist[i]["rule_id"]
                /\ rpResponse.results[i].passed = PyBool(FALSE)
                /\ rpResponse.results[i].explanation = <<"Unknown check type">>

\* the results of the response that are critical and not passed
CriticalNotPassed ==
    {i \in 1..Len(rpResponse.results) :
        /\ rpResponse.results[i].severity = "critical"
        /\ rpResponse.results[i].passed # PyBool(TRUE)}

IsStringList(v) == v.t = "list" /\ \A i \in 1..Len(v.l) : v.l[i].t = "str"

GivenLocations == DictGet(raw.obj, K_locations, Absent)
GivenLocation  == DictGet(raw.obj, K_location, Absent)
GivenReason    == DictGet(raw.obj, K_reason, Absent)

\* C16: the locations of every result of check_rule_with_llm is a sequence of
\* strings: a lone 'location' string comes back as the length-1 sequence
\* holding it, neither field gives the empty sequence, and a 'locations' that
\* is present never comes back as a bare string or another non-sequence.
C16_LocationsIsSequence ==
    pc = "norm_done" =>
        /\ IsStringList(verdict.locations)
        /\ (raw.shape = "bare" /\ GivenLocations = Absent /\ GivenLocation.t = "str")
              => verdict.locations = PyList(<<GivenLocation>>)
        /\ (raw.shape = "bare" /\ GivenLocations = Absent /\ GivenLocation = Absent)
              => verdict.locations = PyList(<<>>)

\* C17: the reason of every result of check_rule_with_llm is a non-empty
\* string: 'No reason provided' when the response has no reason, and never
\* empty or absent when the response's reason is empty or null.
C17_ReasonNonEmpty ==
    pc = "norm_done" =>
        /\ verdict.reason.t = "str" /\ verdict.reason.s # <<>>
        /\ (raw.shape = "bare" /\ GivenReason = Absent)
              => verdict.reason = PyStr(M_NoReason)

\* the result of a rule during whose evaluation the service failed: the
\* reason the generic handler builds from the client's exception
ServiceFailure(r) ==
    /\ r.reason.t = "str" /\ Len(r.reason.s) = 2
    /\ r.reason.s[1] = M_ErrorPrefix
    /\ r.reason.s[2] \in {e.error : e \in ChatErrors}

\* C18: a failure of the generative service during one rule's evaluation is
\* recovered locally: the rule gets a result with status failed, the
\* remaining rules are still evaluated, and the request ends with a normal
\* response holding one result per rule.
C18_ServiceFailureRecovered ==
    /\ \A i \in 1..Len(results) :
          ServiceFailure(results[i]) => results[i].passed = PyStr(W_failed)
    /\ (pc = "done" /\ \E i \in 1..Len(results) : ServiceFailure(results[i])) =>
          /\ response.status = 200
          /\ Len(response.results) = Len(rulesFile.rules)

\* how many of the keywords occur in the text, as case-insensitive substrings
KeywordsPresent(keywords, text) ==
    Cardinality({i \in 1..Len(keywords) : Has(Lower(text), Lower(keywords[i]))})

\* the service gave no answer, or none a verdict can be read from
FallbackApplies == raw.kind = "error" \/ raw.shape = "malformed"

\* C19: when the service is unavailable or no verdict can be recovered, the
\* result of check_rule_with_llm is the keyword-overlap fallback's: status
\* passed iff (keywords present) / (keywords) >= 0.3, failed otherwise, and
\* never partial.
C19_KeywordFallback ==
    (pc = "eval_done" /\ evCall.fn = "app" /\ FallbackApplies
        /\ DictGet(evCall.rule, "keywords", <<>>) # <<>>) =>
        /\ (verdict.passed = PyStr(W_passed))
              <=> (10 * KeywordsPresent(evCall.rule["keywords"], evCall.text)
                      >= 3 * Len(evCall.rule["keywords"]))
        /\ verdict.passed # PyStr(W_partial)

\* C20: one evaluation of one rule against one document sends at most one
\* request to the generative service, whatever the request's outcome; a
\* failed call is not repeated.
C20_OneRequestPerRule == llmCalls <= 1

\* C20 witness: the call failed, the evaluation returned, one request was sent
C20_Witness ==
    /\ pc = "eval_done" /\ raw.kind = "error"
    /\ llmCalls = 1

\* the largest slice of the document the program takes
LargestBudget == 20000

\* C21: every request sent to the generative service holds at most a fixed
\* number of leading characters of the document (the largest slice the
\* program takes), whatever the document's length and the rule's kind
C21_ExcerptBounded ==
    \A i \in 1..Len(pmSent) : pmSent[i] <= LargestBudget

\* C22: a rule evaluation that waits for the generative service eventually
\* completes with a verdict, also when the service never answers
C22_EventuallyVerdict == (pc = "eval_waiting") ~> (pc = "eval_done")

\* the rules of the checklist that fail on the file of the last run
FailedThisRun ==
    {i \in 1..Len(vdChecklist) :
        ~RunCheck(VdExtractedText(vdFile), vdChecklist[i]).passed}

\* the rules carry every field validate reads
CompleteRules ==
    \A i \in 1..Len(vdChecklist) :
        {"rule_id", "rule_name", "check_type", "severity", "explanation"}
            \subseteq DOMAIN vdChecklist[i]

\* C23: the value a validate() call returns describes that run alone:
\* total_rules is the number of rules of the checklist, results holds one
\* verdict per rule, in order, and total_rules - passed_rules is the number of
\* rules that failed in that run
C23_FreshPerRun ==
    (vdReturn.kind = "value" /\ CompleteRules) =>
        /\ vdReturn.total_rules = Len(vdChecklist)
        /\ Len(vdReturn.results) = Len(vdChecklist)
        /\ \A i \in 1..Len(vdChecklist) :
              /\ i <= Len(vdReturn.results)
              /\ vdReturn.results[i].rule_id = vdChecklist[i]["rule_id"]
              /\ vdReturn.results[i].passed
                    = RunCheck(VdExtractedText(vdFile), vdChecklist[i]).passed
        /\ vdReturn.total_rules - vdReturn.passed_rules = Cardinality(FailedThisRun)

\* C24: a request whose document yields empty text ends with an error, no
\* rule is evaluated on it and no request goes to the generative service
C24_NoRuleOnEmptyText ==
    (request.hasFile /\ request.extractOk /\ request.blank) =>
        /\ results = <<>>
        /\ llmCalls = 0
        /\ pc = "done" => response.status >= 400

\* the rule's check_type is none the rule-set format knows, or it has none
UnknownType(rule) ==
    \/ "check_type" \notin DOMAIN rule
    \/ rule["check_type"] \notin SupportedTypes \cup {"generative"}

\* the rule lacks a field its check_type requires
MissingField(rule) ==
    /\ ~Unsupported(rule)
    /\ ~((CASE rule["check_type"] = "exact_match"    -> {"search_pattern"}
            [] rule["check_type"] = "section_header" -> {"section_name"}
            [] OTHER                                 -> {"keywords"})
          \cup {"explanation_template"} \subseteq DOMAIN rule)

\* validate_all_rules was run on the checklist
RulesEvaluated ==
    /\ pc = "rp_done"
    /\ \/ rpResponse.status = 200
       \/ rpResponse.status = 500 /\ rpResponse.error = "rule"

\* C25: a rule with an unknown check_type, or without a field its check_type
\* requires, is rejected when the rule set is loaded: the checklist that
\* reaches evaluation holds no such rule
C25_ConfigRejectedAtLoad ==
    RulesEvaluated =>
        \A i \in 1..Len(checklist) :
            ~UnknownType(checklist[i]) /\ ~MissingField(checklist[i])

\* what the three loops have in common: results so far belong, in order, to
\* the first rules of the rule set
InOrder(rs, rules, key, field) ==
    /\ Len(rs) <= Len(rules)
    /\ \A i \in 1..Len(rs) : rs[i][key] = rules[i][field]

\* C26: rules are evaluated one at a time in the declared order of the rule
\* set (rule i+1 is started only when the result of rule i is stored, and the
\* calls to the service made so far are those of the rules before it), and
\* the results returned have the length and the order of the rule set,
\* result i belonging to rule i.
C26_DeclaredOrder ==
    /\ pc = "api_loop" =>
          /\ Len(apiResults) = apiIdx - 1
          /\ InOrder(apiResults, apiRules, "rule_id", "id")
          /\ llmCalls <= apiIdx - 1
    /\ apiResponse.status = 200 =>
          /\ Len(apiResponse.results) = Len(apiRules)
          /\ InOrder(apiResponse.results, apiRules, "rule_id", "id")
    /\ pc = "loop" =>
          /\ Len(results) = idx - 1
          /\ InOrder(results, rulesFile.rules, "rule_name", "name")
          /\ llmCalls <= idx - 1
    /\ response.status = 200 =>
          /\ Len(response.results) = Len(rulesFile.rules)
          /\ InOrder(response.results, rulesFile.rules, "rule_name", "name")
    /\ rpResponse.status = 200 =>
          /\ Len(rpResponse.results) = Len(checklist)
          /\ InOrder(rpResponse.results, checklist, "rule_id", "rule_id")

C26_Witness ==
    /\ pc = "api_done" /\ apiResponse.status = 200
    /\ Len(apiRules) = 2 /\ apiRules[1]["id"] # apiRules[2]["id"]
    /\ llmCalls = 2
    /\ apiResponse.results[1].rule_id = apiRules[1]["id"]
    /\ apiResponse.results[2].rule_id = apiRules[2]["id"]

\* the results whose 'satisfied' is the boolean true
ReportedTrue(rs) == {i \in 1..Len(rs) : rs[i].satisfied = PyBool(TRUE)}

\* C27: in src/backend/app.py a rule counts toward satisfied_rules and
\* compliance_score only when the response of the service gave 'satisfied' as
\* the boolean true; a missing, null, string or numeric 'satisfied' counts as
\* not satisfied.
C27_OnlyTrueCounts ==
    apiResponse.status = 200 =>
        /\ apiResponse.satisfied_rules = Cardinality(ReportedTrue(apiResponse.results))
        /\ apiResponse.compliance_score =
               ComplianceScore(Cardinality(ReportedTrue(apiResponse.results)),
                               apiResponse.total_rules)

\* the rule set gives every rule its id, name, importance and type
ConfiguredRules ==
    \A i \in 1..Len(apiRules) :
        {"id", "name", "importance", "type"} \subseteq DOMAIN apiRules[i]

\* C28: /api/review of src/backend/app.py, given a report text that is not
\* blank, answers with one result per configured rule, whatever the types of
\* the rules (client_name, audit_period, other) and whatever the service
\* answered; no rule evaluation raises out of the handler.
C28_ReviewAnswersEveryRule ==
    (/\ pc = "api_done"
     /\ apiRequest.endpoint = "review"
     /\ StripStr(apiRequest.text) # <<>>
     /\ ConfiguredRules) =>
        /\ apiResponse.status = 200
        /\ Len(apiResponse.results) = Len(apiRules)

\* C29: an upload request that saved the uploaded file has removed it by the
\* time the request completes, on every exit path (success, empty or failed
\* extraction, an exception while loading the rules or evaluating one), in
\* each of the three upload handlers.
C29_FileRemovedOnExit ==
    /\ pc = "done" => ~fileOnDisk
    /\ pc = "rp_done" => ~rpFile
    /\ pc = "api_done" => ~apiFile

\* C30: the two keyword checkers agree: for every keywords list, threshold n
\* and text, check_keyword of src/validator.py (min_occurrences = n) gives the
\* verdict that validate_keyword of src/backend.py (required_count = n) gives.
C30_KeywordCheckersAgree ==
    (/\ pc = "check_done" /\ ckOut.op = "check_keyword"
     /\ ~ValidateKeyword(ckText, ckRule).raised) =>
        ckOut.passed = ValidateKeyword(ckText, ckRule).passed

====
